---- MODULE Spec2Model ----
(***************************************************************************)
(* Ledger, cut computation and statement matcher of the money-return       *)
(* tracker.  Three revisions of the application are modelled side by side; *)
(* the variable rev says which one is running:                             *)
(*   "local"  src/app.js lines 1-760      (localStorage persistence)       *)
(*   "upload" src/app.js lines 761-1808   (workspaces + image upload)      *)
(*   "stmt"   src/unnamed/part_000        (workspaces + statement matcher) *)
(*                                                                         *)
(* Strings are sequences of one-character strings, so that parsing,        *)
(* trimming, lower-casing and slicing are computed and not assumed.        *)
(* JavaScript numbers are tagged records: a number, NaN or null.  Amounts  *)
(* are whole numbers (the enumerated inputs carry no fraction), for which  *)
(* the arithmetic of doubles is exact.  The pass-through fields time,      *)
(* note, createdAt and imageUrl are not modelled; no operation reads them. *)
(***************************************************************************)
EXTENDS Integers, Sequences, FiniteSets, TLC

VARIABLES rev, state, stored, alert, lastOp, run,
          workspaceId, wsLoadToken, controlsDisabled, loads, docs,
          workers, batches, call

\* workspace selection: the chosen code, the load token, the disabled flag of
\* the controls, the reads issued by load() (indexed by their token) and the
\* documents of the collection "workspaces"
wsVars == <<workspaceId, wsLoadToken, controlsDisabled, loads>>

\* OCR flow: the recognition workers alive, the runs of the Process handler and
\* the call of a text helper made last (its name, argument and result)
ocrVars == <<workers, batches, call>>

vars == <<rev, state, stored, alert, lastOp, run, wsVars, docs, ocrVars>>

-----------------------------------------------------------------------------
(* Bounds of the model *)

\* Spec: employees, transactions, rows of one CSV file
MaxEmps == 1
MaxTxns == 2
MaxRows == 1

-----------------------------------------------------------------------------
(* JavaScript values *)

Num(n) == [k |-> "num", v |-> n]
NaN == [k |-> "nan", v |-> 0]
Null == [k |-> "null", v |-> 0]

\* isNaN(x): Number(null) is 0, so only NaN answers true
IsNaN(x) == x.k = "nan"
\* !x for a number, NaN or null
Falsy(x) == x.k # "num" \/ x.v = 0
\* x != null
NotNull(x) == x.k # "null"
ToNumber(x) == IF x.k = "null" THEN Num(0) ELSE x
\* x || y
JsOr(x, y) == IF Falsy(x) THEN y ELSE x
JsAdd(x, y) == IF IsNaN(x) \/ IsNaN(y) THEN NaN ELSE Num(ToNumber(x).v + ToNumber(y).v)
JsSub(x, y) == IF IsNaN(x) \/ IsNaN(y) THEN NaN ELSE Num(ToNumber(x).v - ToNumber(y).v)
\* amount*(cutValue/100); exact for the enumerated amounts, all multiples of 100
JsPercent(amount, cutValue) ==
  IF IsNaN(amount) \/ IsNaN(cutValue) THEN NaN
  ELSE Num((ToNumber(amount).v * ToNumber(cutValue).v) \div 100)
\* Math.max(0, x): NaN when x is NaN
MathMax0(x) ==
  IF IsNaN(x) THEN NaN
  ELSE IF ToNumber(x).v > 0 THEN ToNumber(x) ELSE Num(0)

-----------------------------------------------------------------------------
(* Strings as sequences of characters *)

Digits == {"0", "1", "2", "3", "4", "5", "6", "7", "8", "9"}
DigitVal ==
  "0" :> 0 @@ "1" :> 1 @@ "2" :> 2 @@ "3" :> 3 @@ "4" :> 4 @@
  "5" :> 5 @@ "6" :> 6 @@ "7" :> 7 @@ "8" :> 8 @@ "9" :> 9
LowerOf ==
  "A" :> "a" @@ "B" :> "b" @@ "C" :> "c" @@ "D" :> "d" @@ "E" :> "e" @@
  "F" :> "f" @@ "G" :> "g" @@ "H" :> "h" @@ "I" :> "i" @@ "J" :> "j" @@
  "K" :> "k" @@ "L" :> "l" @@ "M" :> "m" @@ "N" :> "n" @@ "O" :> "o" @@
  "P" :> "p" @@ "Q" :> "q" @@ "R" :> "r" @@ "S" :> "s" @@ "T" :> "t" @@
  "U" :> "u" @@ "V" :> "v" @@ "W" :> "w" @@ "X" :> "x" @@ "Y" :> "y" @@
  "Z" :> "z"
Letters == DOMAIN LowerOf \cup {LowerOf[c] : c \in DOMAIN LowerOf}

ToLowerCase(s) == [i \in 1..Len(s) |-> IF s[i] \in DOMAIN LowerOf THEN LowerOf[s[i]] ELSE s[i]]

RECURSIVE SpaceRun(_, _)
SpaceRun(s, i) == IF i <= Len(s) /\ s[i] = " " THEN 1 + SpaceRun(s, i + 1) ELSE 0
RECURSIVE SpaceRunBack(_, _)
SpaceRunBack(s, i) == IF i >= 1 /\ s[i] = " " THEN 1 + SpaceRunBack(s, i - 1) ELSE 0
\* s.trim()
Trim(s) ==
  LET a == SpaceRun(s, 1)
  IN IF a = Len(s) THEN <<>> ELSE SubSeq(s, a + 1, Len(s) - SpaceRunBack(s, Len(s)))

RECURSIVE DigitRun(_, _)
DigitRun(s, i) == IF i <= Len(s) /\ s[i] \in Digits THEN 1 + DigitRun(s, i + 1) ELSE 0
RECURSIVE DigitsValue(_, _, _)
DigitsValue(s, i, n) ==
  IF n = 0 THEN 0 ELSE DigitsValue(s, i, n - 1) * 10 + DigitVal[s[i + n - 1]]

\* parseFloat(s) of a text without fraction or exponent: leading blanks, a sign,
\* the longest run of digits; NaN when there is no digit
ParseFloat(s) ==
  LET b == SpaceRun(s, 1) + 1
      signed == b <= Len(s) /\ s[b] \in {"-", "+"}
      d == IF signed THEN b + 1 ELSE b
      n == DigitRun(s, d)
  IN IF n = 0 THEN NaN
     ELSE Num((IF signed /\ s[b] = "-" THEN -1 ELSE 1) * DigitsValue(s, d, n))

\* parseNumber of the "upload" and "stmt" revisions: every character but digits
\* and the dot is dropped, the sign with them; an empty argument gives NaN
parseNumber(s) ==
  IF s = <<>> THEN NaN
  ELSE ParseFloat(SelectSeq(s, LAMBDA c : c \in Digits \cup {"."}))
\* parseNumber of the "local" revision keeps the minus sign
parseNumberLocal(s) == ParseFloat(SelectSeq(s, LAMBDA c : c \in Digits \cup {".", "-"}))

-----------------------------------------------------------------------------
(* The ledger: state = {employees, transactions} *)

\* employeeId of a transaction without employee: the empty string of the code
NoEmployee == 0

Revisions == {"local", "upload", "stmt"}

EmptyLedger == [employees |-> <<>>, transactions |-> <<>>]

EmpIds(emps) == {emps[i].id : i \in DOMAIN emps}
TxnIds(txns) == {txns[i].id : i \in DOMAIN txns}

\* uid(): a random string, taken to be unused.  Ids are opaque, so the smallest
\* number in use nowhere in the ledger stands for the fresh one.
uidEmployee(st) ==
  LET used == EmpIds(st.employees) \cup {st.transactions[i].employeeId : i \in DOMAIN st.transactions}
  IN CHOOSE n \in 1..(Cardinality(used) + 1) :
       n \notin used /\ \A m \in 1..(n - 1) : m \in used
uidTxn(st) ==
  LET used == TxnIds(st.transactions)
  IN CHOOSE n \in 1..(Cardinality(used) + 1) :
       n \notin used /\ \A m \in 1..(n - 1) : m \in used

-----------------------------------------------------------------------------
(* Summary: computeSummary and computeOverallTotals *)

\* the cut of one outgoing transaction t of employee e
\* a truthiness test in place of "!= null": an override of 0 falls back to the rule
computedCutTruthy(t, e) ==
  IF ~Falsy(t.cutOverride) THEN t.cutOverride
  ELSE IF e.cutType = "percent" THEN JsPercent(t.amount, e.cutValue)
  ELSE e.cutValue

computedCut(t, e) ==
  IF NotNull(t.cutOverride) THEN t.cutOverride
  ELSE IF e.cutType = "percent" THEN JsPercent(t.amount, e.cutValue)
  ELSE e.cutValue

expectedReturn(t, cut) == MathMax0(JsSub(t.amount, cut))

\* per[e.id] = {...} for every employee, in order: the last one of an id stays
perInit(emps) ==
  [id \in EmpIds(emps) |->
     LET i == CHOOSE j \in DOMAIN emps :
                emps[j].id = id /\ \A h \in DOMAIN emps : emps[h].id = id => h <= j
     IN [name |-> emps[i].name, cutType |-> emps[i].cutType, cutValue |-> emps[i].cutValue,
         outgoings |-> <<>>, totalSent |-> Num(0), totalCut |-> Num(0),
         totalExpected |-> Num(0)]]

\* "=" in place of "+=" on totalExpected: the last outgoing wins
perAddLast(per, t) ==
  IF t.type # "outgoing" \/ t.employeeId \notin DOMAIN per THEN per
  ELSE LET e == per[t.employeeId]
           cut == computedCut(t, e)
           expected == expectedReturn(t, cut)
       IN [per EXCEPT ![t.employeeId] =
             [e EXCEPT !.outgoings = Append(@, [txn |-> t, computedCut |-> cut,
                                                 expectedReturn |-> expected]),
                       !.totalSent = JsAdd(@, t.amount),
                       !.totalCut = JsAdd(@, cut),
                       !.totalExpected = expected]]

\* one pass of the forEach over the outgoing transactions
perAdd(per, t) ==
  IF t.type # "outgoing" \/ t.employeeId \notin DOMAIN per THEN per
  ELSE LET e == per[t.employeeId]
           cut == computedCut(t, e)
           expected == expectedReturn(t, cut)
       IN [per EXCEPT ![t.employeeId] =
             [e EXCEPT !.outgoings = Append(@, [txn |-> t, computedCut |-> cut,
                                                 expectedReturn |-> expected]),
                       !.totalSent = JsAdd(@, t.amount),
                       !.totalCut = JsAdd(@, cut),
                       !.totalExpected = JsAdd(@, expected)]]

RECURSIVE perFold(_, _, _)
perFold(per, txns, i) ==
  IF i > Len(txns) THEN per ELSE perFold(perAdd(per, txns[i]), txns, i + 1)

computeSummary(st) == perFold(perInit(st.employees), st.transactions, 1)

\* Object.values(per): one entry per id, in the order the ids were first inserted
perValues(st) ==
  LET per == computeSummary(st)
      emps == st.employees
      first == SelectSeq([i \in DOMAIN emps |-> i],
                         LAMBDA i : \A h \in 1..(i - 1) : emps[h].id # emps[i].id)
  IN [k \in DOMAIN first |-> per[emps[first[k]].id]]

RECURSIVE reduceSent(_, _, _)
reduceSent(vals, i, s) ==
  IF i > Len(vals) THEN s ELSE reduceSent(vals, i + 1, JsAdd(s, vals[i].totalSent))
RECURSIVE reduceExpected(_, _, _)
reduceExpected(vals, i, s) ==
  IF i > Len(vals) THEN s ELSE reduceExpected(vals, i + 1, JsAdd(s, vals[i].totalExpected))
\* only the returns attributed to nobody are summed
RECURSIVE reduceReturnedUnattributed(_, _, _)
reduceReturnedUnattributed(txns, i, s) ==
  IF i > Len(txns) THEN s
  ELSE reduceReturnedUnattributed(txns, i + 1,
         IF txns[i].type = "return" /\ txns[i].employeeId = NoEmployee
         THEN JsAdd(s, JsOr(txns[i].amount, Num(0))) ELSE s)

\* filter(t => t.type === "return").reduce((s,t) => s + (t.amount||0), 0)
RECURSIVE reduceReturned(_, _, _)
reduceReturned(txns, i, s) ==
  IF i > Len(txns) THEN s
  ELSE reduceReturned(txns, i + 1,
         IF txns[i].type = "return" THEN JsAdd(s, JsOr(txns[i].amount, Num(0))) ELSE s)

computeOverallTotals(st) ==
  LET vals == perValues(st)
      totalSent == reduceSent(vals, 1, Num(0))
      totalExpected == reduceExpected(vals, 1, Num(0))
      totalReturned == reduceReturned(st.transactions, 1, Num(0))
  IN [totalSent |-> totalSent, totalExpected |-> totalExpected,
      totalReturned |-> totalReturned,
      overallBalance |-> JsSub(totalExpected, totalReturned)]

-----------------------------------------------------------------------------
(* Handlers that change the ledger.  Every handler ends in save(), which    *)
(* writes the ledger to the store; the workspace is chosen and loaded.      *)

NoRun == [entries |-> <<>>, before |-> <<>>, updates |-> 0]

\* the handler changed the ledger to st and called save()
Commit(st, op, msg) ==
  /\ state' = st
  /\ IF workspaceId = <<>>
     THEN UNCHANGED <<stored, docs>>
     ELSE /\ stored' = state'
          /\ docs' = [docs EXCEPT ![workspaceId] = [exists |-> TRUE, data |-> state']]
  /\ alert' = msg
  /\ lastOp' = op
  /\ run' = NoRun
  /\ UNCHANGED <<rev, wsVars, ocrVars>>

\* the handler returned before touching the ledger
Reject(op, msg) ==
  /\ alert' = msg
  /\ lastOp' = op
  /\ run' = NoRun
  /\ UNCHANGED <<rev, state, stored, wsVars, docs, ocrVars>>

NewEmployeeName == <<"N", "e", "w", " ", "E", "m", "p", "l", "o", "y", "e", "e">>

\* the record the Add Employee button pushes
newEmployee(rv, id) ==
  IF rv = "upload"
  THEN [id |-> id, name |-> <<>>, cutType |-> "percent", cutValue |-> Num(10)]
  ELSE [id |-> id, name |-> NewEmployeeName, cutType |-> "percent", cutValue |-> Num(0)]

AddEmployee ==
  Commit([state EXCEPT !.employees = Append(@, newEmployee(rev, uidEmployee(state)))],
         "addEmployee", "")

\* parseFloat(value || 0)
parseFloatOr0(text) == IF text = <<>> THEN Num(0) ELSE ParseFloat(text)

\* change handler of the employee table: field f of employee i gets value v
EmployeeChange(i, f, v) ==
  /\ i \in DOMAIN state.employees
  /\ LET e == state.employees[i]
         e2 == CASE f = "name" -> [e EXCEPT !.name = Trim(v)]
                 [] f = "cutType" -> [e EXCEPT !.cutType = v]
                 [] f = "cutValue" -> [e EXCEPT !.cutValue = parseFloatOr0(v)]
     IN Commit([state EXCEPT !.employees[i] = e2], "employeeChange", "")

\* a delete that cascades to the transactions of the employee
EmployeeDeleteCascade(i) ==
  /\ i \in DOMAIN state.employees
  /\ LET id == state.employees[i].id
     IN Commit([employees |-> SelectSeq(state.employees, LAMBDA x : x.id # id),
                transactions |-> SelectSeq(state.transactions, LAMBDA t : t.employeeId # id)],
               "employeeDelete", "")

\* click handler of the Delete button of employee i
EmployeeDelete(i) ==
  /\ i \in DOMAIN state.employees
  /\ LET id == state.employees[i].id
     IN Commit([state EXCEPT !.employees = SelectSeq(@, LAMBDA x : x.id # id)],
               "employeeDelete", "")

\* click handler of the Delete button of transaction i
TxnDelete(i) ==
  /\ i \in DOMAIN state.transactions
  /\ LET id == state.transactions[i].id
     IN Commit([state EXCEPT !.transactions = SelectSeq(@, LAMBDA t : t.id # id)],
               "txnDelete", "")

\* edSave of the edit dialog opened on transaction i; f holds the input values
EdSave(i, f) ==
  /\ i \in DOMAIN state.transactions
  /\ f.employeeId \in EmpIds(state.employees) \cup {NoEmployee}
  /\ LET t == [state.transactions[i] EXCEPT
                 !.type = f.type,
                 !.employeeId = f.employeeId,
                 !.amount = parseFloatOr0(f.amount),
                 !.cutOverride = IF f.cut = <<>> THEN Null ELSE ParseFloat(f.cut),
                 !.date = Trim(f.date),
                 !.mode = Trim(f.mode),
                 !.ref = Trim(f.ref),
                 !.source = Trim(f.source)]
     IN Commit([state EXCEPT !.transactions[i] = t], "edSave", "")

\* parseNumber(value || 0) of the review card
cardAmount(rv, text) ==
  IF rv = "local" THEN parseNumberLocal(IF text = <<>> THEN <<"0">> ELSE text)
  ELSE IF text = <<>> THEN NaN ELSE parseNumber(text)

CardSaveUnchecked(f) ==
  /\ f.employeeId \in EmpIds(state.employees) \cup {NoEmployee}
  /\ Commit([state EXCEPT !.transactions = Append(@,
               [id |-> uidTxn(state), type |-> f.type, employeeId |-> f.employeeId,
                amount |-> cardAmount(rev, f.amount), mode |-> Trim(f.mode),
                date |-> Trim(f.date), ref |-> Trim(f.ref), source |-> Trim(f.source),
                cutOverride |-> Null])], "cardSave", "")

\* Save of an OCR review card; f holds the input values
CardSave(f) ==
  /\ f.employeeId \in EmpIds(state.employees) \cup {NoEmployee}
  /\ LET rec == [id |-> uidTxn(state), type |-> f.type, employeeId |-> f.employeeId,
                 amount |-> cardAmount(rev, f.amount), mode |-> Trim(f.mode),
                 date |-> Trim(f.date), ref |-> Trim(f.ref), source |-> Trim(f.source),
                 cutOverride |-> Null]
     IN IF Falsy(rec.amount) \/ IsNaN(rec.amount)
        THEN Reject("cardSave", "Amount missing/invalid")
        ELSE IF rec.type = "outgoing" /\ rec.employeeId = NoEmployee
        THEN Reject("cardSave", IF rev = "local" THEN "Choose an employee for outgoing"
                                ELSE "Please choose an employee for outgoing")
        ELSE Commit([state EXCEPT !.transactions = Append(@, rec)], "cardSave", "")

\* state.employees.find(e => e.name.toLowerCase() === name.toLowerCase()): its
\* index, 0 when there is none
findByName(emps, name) ==
  LET hits == {i \in DOMAIN emps : ToLowerCase(emps[i].name) = ToLowerCase(name)}
  IN IF hits = {} THEN 0 ELSE CHOOSE i \in hits : \A h \in hits : i <= h

\* find-or-create by name: the ledger after it and the id found or made
resolveEmployee(st, name, cutValue) ==
  IF name = <<>> THEN [st |-> st, id |-> NoEmployee]
  ELSE LET i == findByName(st.employees, name)
       IN IF i # 0 THEN [st |-> st, id |-> st.employees[i].id]
          ELSE LET id == uidEmployee(st)
               IN [st |-> [st EXCEPT !.employees = Append(@,
                             [id |-> id, name |-> name, cutType |-> "percent",
                              cutValue |-> cutValue])],
                   id |-> id]

\* the cells of a row are trimmed by parseCsv in the workspace revisions and by
\* the import handler in the "local" one
cell(rv, text) == IF rv = "local" THEN Trim(text) ELSE text

outgoingRec(rv, st, empId, amount, cut, r) ==
  [id |-> uidTxn(st), type |-> "outgoing", employeeId |-> empId, amount |-> amount,
   mode |-> cell(rv, r.mode), date |-> cell(rv, r.date), ref |-> cell(rv, r.ref),
   source |-> <<>>, cutOverride |-> cut]

\* one row of the outgoing CSV import
importOutRow(rv, st, r) ==
  CASE rv = "stmt" ->
         LET amount == parseFloatOr0(r.amount)
             res == resolveEmployee(st, r.employee, Num(0))
             cut == IF r.cut # <<>> THEN ParseFloat(r.cut) ELSE Null
         IN IF Falsy(amount) THEN st
            ELSE [res.st EXCEPT !.transactions =
                    Append(@, outgoingRec(rv, res.st, res.id, amount, cut, r))]
    [] rv = "local" ->
         LET res == resolveEmployee(st, Trim(r.employee), Num(0))
             amount == parseNumberLocal(r.amount)
             cut == IF r.cut # <<>> THEN parseNumberLocal(r.cut) ELSE Null
         IN IF Falsy(amount) \/ IsNaN(amount) THEN res.st
            ELSE [res.st EXCEPT !.transactions =
                    Append(@, outgoingRec(rv, res.st, res.id, amount, cut, r))]
    [] rv = "upload" ->
         LET res == resolveEmployee(st, Trim(r.employee), Num(10))
             amount == parseNumber(r.amount)
             cut == IF r.cut # <<>> THEN parseNumber(r.cut) ELSE Null
         IN [res.st EXCEPT !.transactions =
               Append(@, outgoingRec(rv, res.st, res.id, amount, cut, r))]

\* one row of the incoming CSV import
importRetRow(rv, st, r) ==
  LET amount == CASE rv = "stmt" -> parseFloatOr0(r.amount)
                  [] rv = "local" -> parseNumberLocal(r.amount)
                  [] rv = "upload" -> parseNumber(r.amount)
      rec == [id |-> uidTxn(st), type |-> "return", employeeId |-> NoEmployee,
              amount |-> amount, mode |-> cell(rv, r.mode), date |-> cell(rv, r.date),
              ref |-> cell(rv, r.ref), source |-> cell(rv, r.source),
              cutOverride |-> Null]
  IN IF rv # "upload" /\ (Falsy(amount) \/ IsNaN(amount)) THEN st
     ELSE [st EXCEPT !.transactions = Append(@, rec)]

RECURSIVE importOutRows(_, _, _, _)
importOutRows(rv, st, rows, i) ==
  IF i > Len(rows) THEN st ELSE importOutRows(rv, importOutRow(rv, st, rows[i]), rows, i + 1)
RECURSIVE importRetRows(_, _, _, _)
importRetRows(rv, st, rows, i) ==
  IF i > Len(rows) THEN st ELSE importRetRows(rv, importRetRow(rv, st, rows[i]), rows, i + 1)

\* the outgoing CSV import over the parsed rows of one file
ImportOutgoingCSV(rows) ==
  Commit(importOutRows(rev, state, rows, 1), "importOutgoing",
         IF rev = "local" THEN "Outgoing imported." ELSE "")

\* the incoming CSV import over the parsed rows of one file
ImportIncomingCSV(rows) ==
  Commit(importRetRows(rev, state, rows, 1), "importIncoming",
         IF rev = "local" THEN "Incoming imported." ELSE "")

\* importJSONFile: file.kind says what JSON.parse made of the text
ImportJSON(file) ==
  CASE file.kind = "garbage" -> Reject("importJSON", "Failed to parse JSON.")
    [] file.kind = "noMembers" -> Reject("importJSON", "Invalid JSON structure.")
    [] file.kind = "ledger" -> Commit(file.obj, "importJSON", "")

\* Clear All
ClearAll == Commit(EmptyLedger, "clearAll", "")

-----------------------------------------------------------------------------
(* Statement matcher: applyStatementMatches ("stmt" revision)               *)

DigitChars == <<"0", "1", "2", "3", "4", "5", "6", "7", "8", "9">>
Seps == {"/", "-"}

DigitsAt(s, i, n) == i + n - 1 <= Len(s) /\ \A j \in i..(i + n - 1) : s[j] \in Digits
CharAt(s, i, set) == i <= Len(s) /\ s[i] \in set
RECURSIVE LetterRun(_, _)
LetterRun(s, i) == IF i <= Len(s) /\ s[i] \in Letters THEN 1 + LetterRun(s, i + 1) ELSE 0
Min(a, b) == IF a < b THEN a ELSE b
Abs(a) == IF a < 0 THEN -a ELSE a

\* the alternatives of \d{1,2} ... \d{1,2}, greedy first
DayMonthWidths == <<<<2, 2>>, <<2, 1>>, <<1, 2>>, <<1, 1>>>>

\* /(\d{1,2})[\/\-](\d{1,2})[\/\-](\d{2,4})/ at position i, day of a and month of b digits
slashAt(s, i, a, b) ==
  /\ DigitsAt(s, i, a)
  /\ CharAt(s, i + a, Seps)
  /\ DigitsAt(s, i + a + 1, b)
  /\ CharAt(s, i + a + b + 1, Seps)
  /\ DigitsAt(s, i + a + b + 2, 2)

\* the widths tried at position i, longest day first, then longest month: the
\* first that matches, 0 for none
slashWidths(s, i) ==
  IF slashAt(s, i, 2, 2) THEN 1 ELSE IF slashAt(s, i, 2, 1) THEN 2
  ELSE IF slashAt(s, i, 1, 2) THEN 3 ELSE IF slashAt(s, i, 1, 1) THEN 4 ELSE 0

\* the leftmost position from i on where the pattern matches, 0 for none
RECURSIVE slashFind(_, _)
slashFind(s, i) ==
  IF i > Len(s) THEN 0 ELSE IF slashWidths(s, i) # 0 THEN i ELSE slashFind(s, i + 1)

\* the groups of the match at position i with a day of a and a month of b digits
slashGroups(s, i, a, b) ==
  [ok |-> TRUE, dd |-> SubSeq(s, i, i + a - 1), mm |-> SubSeq(s, i + a + 1, i + a + b),
   yy |-> SubSeq(s, i + a + b + 2, i + a + b + 1 + Min(4, DigitRun(s, i + a + b + 2)))]

slashMatchAt(s, i, w) == slashGroups(s, i, DayMonthWidths[w][1], DayMonthWidths[w][2])

slashMatchFrom(s, i) ==
  IF i = 0 THEN [ok |-> FALSE, dd |-> <<>>, mm |-> <<>>, yy |-> <<>>]
  ELSE slashMatchAt(s, i, slashWidths(s, i))

\* the leftmost match of the pattern: its groups, or ok = FALSE
slashMatch(s) == slashMatchFrom(s, slashFind(s, 1))

\* the position after the spaces, and after the letters, that start at i
skipSpaces(s, i) == i + SpaceRun(s, i)
skipLetters(s, i) == i + LetterRun(s, i)

\* the rest of the pattern from the month name at p on
monthTail(s, p, q) ==
  /\ q - p >= 3 /\ q - p <= 9
  /\ SpaceRun(s, q) >= 1
  /\ DigitsAt(s, skipSpaces(s, q), 2)

\* /(\d{1,2})\s+([A-Za-z]{3,9})\s+(\d{2,4})/ at position i with a day of a digits
monthAt(s, i, a) ==
  /\ DigitsAt(s, i, a)
  /\ SpaceRun(s, i + a) >= 1
  /\ monthTail(s, skipSpaces(s, i + a), skipLetters(s, skipSpaces(s, i + a)))

\* the leftmost position from i on where the pattern matches, 0 for none
RECURSIVE monthFind(_, _)
monthFind(s, i) ==
  IF i > Len(s) THEN 0
  ELSE IF monthAt(s, i, 2) \/ monthAt(s, i, 1) THEN i ELSE monthFind(s, i + 1)

\* the groups of the match: day of a digits at i, month name from p to q - 1, year at r
monthGroups(s, i, a, p, q, r) ==
  [ok |-> TRUE, dd |-> SubSeq(s, i, i + a - 1), mon |-> SubSeq(s, p, q - 1),
   yy |-> SubSeq(s, r, r + Min(4, DigitRun(s, r)) - 1)]

monthMatchTail(s, i, a, p, q) == monthGroups(s, i, a, p, q, skipSpaces(s, q))

monthMatchAt(s, i, a) ==
  monthMatchTail(s, i, a, skipSpaces(s, i + a), skipLetters(s, skipSpaces(s, i + a)))

monthMatchFrom(s, i) ==
  IF i = 0 THEN [ok |-> FALSE, dd |-> <<>>, mon |-> <<>>, yy |-> <<>>]
  ELSE monthMatchAt(s, i, IF monthAt(s, i, 2) THEN 2 ELSE 1)

\* the leftmost match of the pattern: its groups, or ok = FALSE
monthMatch(s) == monthMatchFrom(s, monthFind(s, 1))

\* the month table of toKey; 0 stands for a name that is not in it
monthTable(abbr) ==
  CASE abbr = <<"j", "a", "n">> -> 1 [] abbr = <<"f", "e", "b">> -> 2
    [] abbr = <<"m", "a", "r">> -> 3 [] abbr = <<"a", "p", "r">> -> 4
    [] abbr = <<"m", "a", "y">> -> 5 [] abbr = <<"j", "u", "n">> -> 6
    [] abbr = <<"j", "u", "l">> -> 7 [] abbr = <<"a", "u", "g">> -> 8
    [] abbr = <<"s", "e", "p">> -> 9 [] abbr = <<"o", "c", "t">> -> 10
    [] abbr = <<"n", "o", "v">> -> 11 [] abbr = <<"d", "e", "c">> -> 12
    [] OTHER -> 0

\* String(map[...] || "")
monthText(n) ==
  IF n = 0 THEN <<>>
  ELSE IF n < 10 THEN <<DigitChars[n + 1]>>
  ELSE <<DigitChars[(n \div 10) + 1], DigitChars[(n % 10) + 1]>>

\* x.padStart(2, "0")
padStart2(x) ==
  IF Len(x) = 0 THEN <<"0", "0">> ELSE IF Len(x) = 1 THEN <<"0">> \o x ELSE x

\* yy.length===2 ? "20"+yy : yy
fullYear(yy) == IF Len(yy) = 2 THEN <<"2", "0">> \o yy ELSE yy

\* the key made of the groups of the second pattern
monthKey(m2) ==
  IF m2.ok
  THEN fullYear(m2.yy) \o <<"-">>
       \o padStart2(monthText(monthTable(ToLowerCase(SubSeq(m2.mon, 1, 3)))))
       \o <<"-">> \o padStart2(m2.dd)
  ELSE <<>>

\* the key made of the groups of the first pattern, the second tried without them
slashKey(m, d) ==
  IF m.ok
  THEN fullYear(m.yy) \o <<"-">> \o padStart2(m.mm) \o <<"-">> \o padStart2(m.dd)
  ELSE monthKey(monthMatch(d))

\* toKey: the date text normalized to a YYYY-MM-DD key, or the empty string
toKey(d) == IF d = <<>> THEN <<>> ELSE slashKey(slashMatch(d), d)

\* days from 1970-01-01 to the first of month m of year y, plus d - 1
daysFromCivil(y, m, d) ==
  LET yy == IF m <= 2 THEN y - 1 ELSE y
      era == yy \div 400
      yoe == yy - era * 400
      mp == IF m > 2 THEN m - 3 ELSE m + 9
      doy == (153 * mp + 2) \div 5 + d - 1
      doe == yoe * 365 + yoe \div 4 - yoe \div 100 + doy
  IN era * 146097 + doe - 719468

\* new Date(key) of a key YYYY-MM-DD: the day number of its UTC midnight (the
\* time value is that number of days times 86400000 ms), NaN for an invalid
\* date.  The enumerated dates have years of 2 or 4 digits and days that exist
\* in their month, the cases on which the engines agree.
dateOf(key) ==
  IF /\ Len(key) = 10
     /\ DigitsAt(key, 1, 4) /\ key[5] = "-" /\ DigitsAt(key, 6, 2)
     /\ key[8] = "-" /\ DigitsAt(key, 9, 2)
     /\ DigitsValue(key, 6, 2) \in 1..12
     /\ DigitsValue(key, 9, 2) \in 1..31
  THEN Num(daysFromCivil(DigitsValue(key, 1, 4), DigitsValue(key, 6, 2),
                         DigitsValue(key, 9, 2)))
  ELSE NaN

\* the window of within2days, in days: 2*24*60*60*1000 ms
WindowDays == 2

\* a missing key taken for a match
within2daysLenient(a, b) ==
  IF a = <<>> \/ b = <<>> THEN TRUE
  ELSE LET da == dateOf(a)
           db == dateOf(b)
       IN ~IsNaN(da) /\ ~IsNaN(db) /\ Abs(da.v - db.v) <= WindowDays

\* within2days(a, b) on two keys
within2days(a, b) ==
  IF a = <<>> \/ b = <<>> THEN FALSE
  ELSE LET da == dateOf(a)
           db == dateOf(b)
       IN ~IsNaN(da) /\ ~IsNaN(db) /\ Abs(da.v - db.v) <= WindowDays

\* hit.desc.slice(0,140)
SourceMax == 140
\* the description copied whole
sliceNone(desc) == desc
slice140(desc) == SubSeq(desc, 1, Min(Len(desc), SourceMax))

\* candidates.find(c => within2days(tKey, toKey(c.date))) over the entries of
\* the amount of t, in statement order: the index of the hit, 0 for none
findHit(t, entries) ==
  LET tKey == toKey(t.date)
      hits == {j \in DOMAIN entries :
                 entries[j].amount = t.amount /\ within2days(tKey, toKey(entries[j].date))}
  IN IF hits = {} THEN 0 ELSE CHOOSE j \in hits : \A h \in hits : j <= h

\* a backfill that does not look at what the transaction already holds
backfillOverwrite(t, hit) ==
  [t |-> [t EXCEPT !.ref = IF hit.ref # <<>> THEN hit.ref ELSE @,
                   !.mode = IF hit.mode # <<>> THEN hit.mode ELSE @,
                   !.source = IF hit.desc # <<>> THEN slice140(hit.desc) ELSE @],
   changed |-> hit.ref # <<>> \/ hit.mode # <<>> \/ hit.desc # <<>>]

\* the backfill of one matched transaction from the hit: only the empty fields
\* are filled; changed says whether one was
backfill(t, hit) ==
  LET fillRef == t.ref = <<>> /\ hit.ref # <<>>
      fillMode == t.mode = <<>> /\ hit.mode # <<>>
      fillSource == t.source = <<>> /\ hit.desc # <<>>
  IN [t |-> [t EXCEPT !.ref = IF fillRef THEN hit.ref ELSE @,
                      !.mode = IF fillMode THEN hit.mode ELSE @,
                      !.source = IF fillSource THEN slice140(hit.desc) ELSE @],
      changed |-> fillRef \/ fillMode \/ fillSource]

\* the body of the forEach for one transaction
matchOne(t, entries) ==
  IF t.type # "return" THEN [t |-> t, changed |-> FALSE]
  ELSE LET j == findHit(t, entries)
       IN IF j = 0 THEN [t |-> t, changed |-> FALSE] ELSE backfill(t, entries[j])

\* applyStatementMatches(entries): the transactions after it and the count returned
applyStatementMatches(txns, entries) ==
  LET done == [i \in DOMAIN txns |-> matchOne(txns[i], entries)]
  IN [transactions |-> [i \in DOMAIN txns |-> done[i].t],
      updates |-> Cardinality({i \in DOMAIN txns : done[i].changed})]

\* change handler of the statement file input, on the entries parsed from the file
StatementImport(entries) ==
  /\ rev = "stmt"
  /\ IF entries = <<>>
     THEN /\ alert' = "Couldn't find transactions in the statement."
          /\ lastOp' = "statementImport"
          /\ run' = [entries |-> entries, before |-> state.transactions, updates |-> 0]
          /\ UNCHANGED <<rev, state, stored, wsVars, docs, ocrVars>>
     ELSE \E res \in {applyStatementMatches(state.transactions, entries)} :
             /\ state' = [state EXCEPT !.transactions = res.transactions]
             /\ stored' = IF res.updates > 0 THEN state' ELSE stored
             /\ docs' = IF res.updates > 0
                        THEN [docs EXCEPT ![workspaceId] = [exists |-> TRUE, data |-> state']]
                        ELSE docs
             /\ alert' = IF res.updates > 0 THEN "Matched & updated return transaction(s)."
                         ELSE "No matching returns found by amount+date."
             /\ lastOp' = "statementImport"
             /\ run' = [entries |-> entries, before |-> state.transactions,
                        updates |-> res.updates]
             /\ UNCHANGED <<rev, wsVars, ocrVars>>

-----------------------------------------------------------------------------
(* Inputs: the texts typed into the forms and found in the files *)

T500 == <<"5", "0", "0">>
T700 == <<"7", "0", "0">>
T1000 == <<"1", "0", "0", "0">>
TNeg500 == <<"-", "5", "0", "0">>
TAbc == <<"a", "b", "c">>
T0 == <<"0">>
T10 == <<"1", "0">>
T300 == <<"3", "0", "0">>
Asha == <<"A", "s", "h", "a">>

Types == {"outgoing", "return"}

\* the files of at most n rows drawn from rows, at least one row
Files(rows, n) == UNION {[1..k -> rows] : k \in 1..n}

Fits(st, maxEmps, maxTxns) ==
  Len(st.employees) <= maxEmps /\ Len(st.transactions) <= maxTxns

SampleLedger ==
  [employees |-> <<[id |-> 1, name |-> Asha, cutType |-> "percent", cutValue |-> Num(10)]>>,
   transactions |-> <<[id |-> 1, type |-> "outgoing", employeeId |-> 1, amount |-> Num(1000),
                       mode |-> <<>>, date |-> <<>>, ref |-> <<>>, source |-> <<>>,
                       cutOverride |-> Null]>>]

JsonFiles ==
  {[kind |-> "garbage", obj |-> EmptyLedger], [kind |-> "noMembers", obj |-> EmptyLedger],
   [kind |-> "ledger", obj |-> EmptyLedger], [kind |-> "ledger", obj |-> SampleLedger]}

\* no text helper was called yet
NoCall == [fn |-> "none", arg |-> <<>>, result |-> Null]

\* the workspace codes typed into the workspace dialog
WsA == <<"a">>
WsB == <<"b">>
Workspaces == {WsA, WsB}

\* a document snapshot: snap.exists and snap.data()
NoDoc == [exists |-> FALSE, data |-> EmptyLedger]
DocOf(ledger) == [exists |-> TRUE, data |-> ledger]

\* workspace WsA was chosen, its document did not exist and load() created it
InitPage ==
  /\ rev \in Revisions
  /\ state = EmptyLedger
  /\ stored = EmptyLedger
  /\ alert = ""
  /\ lastOp = "init"
  /\ run = NoRun
  /\ workspaceId = WsA
  /\ wsLoadToken = 1
  /\ controlsDisabled = FALSE
  /\ loads = <<[ws |-> WsA, status |-> "created"]>>
  /\ docs = [w \in Workspaces |-> IF w = WsA THEN DocOf(EmptyLedger) ELSE NoDoc]
  /\ workers = 0
  /\ batches = <<>>

Init == InitPage /\ call = NoCall

-----------------------------------------------------------------------------
(* Spec: entry of transactions, in the three revisions *)

AmountTexts == {T500, TNeg500, <<>>}

CardForms ==
  [type : Types, employeeId : 0..MaxEmps, amount : AmountTexts,
   mode : {<<>>}, date : {<<>>}, ref : {<<>>}, source : {<<>>}]
EditForms ==
  [type : Types, employeeId : 0..MaxEmps, amount : AmountTexts, cut : {<<>>},
   mode : {<<>>}, date : {<<>>}, ref : {<<>>}, source : {<<>>}]
OutRows ==
  [employee : {<<>>, Asha}, amount : AmountTexts, cut : {<<>>},
   mode : {<<>>}, date : {<<>>}, ref : {<<>>}]
RetRows ==
  [amount : AmountTexts, mode : {<<>>}, date : {<<>>}, ref : {<<>>}, source : {<<>>}]

Next ==
  \/ AddEmployee /\ Fits(state', MaxEmps, MaxTxns)
  \/ \E f \in CardForms : CardSave(f) /\ Fits(state', MaxEmps, MaxTxns)
  \/ \E i \in 1..MaxTxns, f \in EditForms : EdSave(i, f)
  \/ \E rows \in Files(OutRows, MaxRows) :
       ImportOutgoingCSV(rows) /\ Fits(state', MaxEmps, MaxTxns)
  \/ \E rows \in Files(RetRows, MaxRows) :
       ImportIncomingCSV(rows) /\ Fits(state', MaxEmps, MaxTxns)
  \/ \E file \in JsonFiles : ImportJSON(file) /\ Fits(state', MaxEmps, MaxTxns)
  \/ \E i \in 1..MaxTxns : TxnDelete(i)
  \/ ClearAll

Spec == Init /\ [][Next]_vars

\* C1: every transaction stored in the ledger has an amount that is a number,
\* not NaN, and >= 0: a negative or NaN amount is rejected at entry.
C1_AmountsValid ==
  \A i \in DOMAIN state.transactions :
    state.transactions[i].amount.k = "num" /\ state.transactions[i].amount.v >= 0

-----------------------------------------------------------------------------
(* SpecCut: the cut rule of an employee and the override of a transaction *)

CutEmps == 1
CutTxns == 1

CutRows ==
  [employee : {Asha}, amount : {T1000}, cut : {<<>>, T0, TAbc},
   mode : {<<>>}, date : {<<>>}, ref : {<<>>}]
CutForms ==
  [type : {"outgoing"}, employeeId : 1..CutEmps, amount : {T500},
   cut : {<<>>, T0, T1000}, mode : {<<>>}, date : {<<>>}, ref : {<<>>}, source : {<<>>}]

NextCut ==
  \/ AddEmployee /\ Fits(state', CutEmps, CutTxns)
  \/ \E i \in 1..CutEmps, v \in {"percent", "flat"} : EmployeeChange(i, "cutType", v)
  \/ \E i \in 1..CutEmps, v \in {T10, T300} : EmployeeChange(i, "cutValue", v)
  \/ \E rows \in Files(CutRows, MaxRows) :
       ImportOutgoingCSV(rows) /\ Fits(state', CutEmps, CutTxns)
  \/ \E i \in 1..CutTxns, f \in CutForms : EdSave(i, f)

SpecCut == Init /\ [][NextCut]_vars

\* C2: clamp invariant: the expectedReturn computeSummary gives every outgoing
\* transaction of an existing employee is a number >= 0.
C2_ClampInvariant ==
  LET per == computeSummary(state)
  IN \A id \in DOMAIN per : \A k \in DOMAIN per[id].outgoings :
       LET x == per[id].outgoings[k].expectedReturn
       IN x.k = "num" /\ x.v >= 0

\* C3: for every outgoing transaction of an existing employee whose amount and
\* applicable cut are numbers, computeSummary lists it with cut = cutOverride
\* when one is present (0 included), else amount*cutValue/100 for a percent
\* employee and cutValue for a flat one, and expectedReturn = max(0, amount - cut).
C3_CutFormula ==
  LET per == computeSummary(state)
  IN \A i \in DOMAIN state.transactions : \A j \in DOMAIN state.employees :
       LET t == state.transactions[i]
           e == state.employees[j]
           cut == IF t.cutOverride.k = "num" THEN t.cutOverride.v
                  ELSE IF e.cutType = "percent" THEN (t.amount.v * e.cutValue.v) \div 100
                  ELSE e.cutValue.v
           rest == IF t.amount.v - cut > 0 THEN t.amount.v - cut ELSE 0
       IN (/\ t.type = "outgoing" /\ t.employeeId = e.id
           /\ t.amount.k = "num"
           /\ t.cutOverride.k = "num" \/ (t.cutOverride.k = "null" /\ e.cutValue.k = "num"))
          => \E k \in DOMAIN per[e.id].outgoings :
               LET o == per[e.id].outgoings[k]
               IN o.txn = t /\ o.computedCut = Num(cut) /\ o.expectedReturn = Num(rest)

\* C3 witness: a percent employee with cutValue 10 and an outgoing of 1000
\* without override, summarised with cut 100 and expectedReturn 900.
C3_Witness ==
  LET per == computeSummary(state)
  IN \E j \in DOMAIN state.employees :
       /\ state.employees[j].cutType = "percent"
       /\ state.employees[j].cutValue = Num(10)
       /\ \E k \in DOMAIN per[state.employees[j].id].outgoings :
            LET o == per[state.employees[j].id].outgoings[k]
            IN /\ o.txn.amount = Num(1000) /\ o.txn.cutOverride = Null
               /\ o.computedCut = Num(100) /\ o.expectedReturn = Num(900)

-----------------------------------------------------------------------------
(* SpecTotals: summaries and totals over employees, outgoings and returns *)

TotEmps == 2
TotTxns == 3

TotForms ==
  [type : {"outgoing"}, employeeId : 1..TotEmps, amount : {T1000, T700},
   mode : {<<>>}, date : {<<>>}, ref : {<<>>}, source : {<<>>}]
  \cup
  [type : {"return"}, employeeId : 0..1, amount : {T500},
   mode : {<<>>}, date : {<<>>}, ref : {<<>>}, source : {<<>>}]

NextTotals ==
  \/ AddEmployee /\ Fits(state', TotEmps, TotTxns)
  \/ \E i \in 1..TotEmps, v \in {T0, T10} : EmployeeChange(i, "cutValue", v)
  \/ \E i \in 1..TotEmps : EmployeeDelete(i)
  \/ \E f \in TotForms : CardSave(f) /\ Fits(state', TotEmps, TotTxns)

SpecTotals == Init /\ [][NextTotals]_vars

\* C4: computeOverallTotals gives totalSent and totalExpected as the sums of the
\* per-employee totals, totalReturned as the sum of the amounts of all return
\* transactions whatever their employeeId, and overallBalance as
\* totalExpected - totalReturned.
C4_OverallTotals ==
  LET per == computeSummary(state)
      txns == state.transactions
      tot == computeOverallTotals(state)
      sumSent[S \in SUBSET DOMAIN per] ==
        IF S = {} THEN 0
        ELSE LET id == CHOOSE x \in S : TRUE IN per[id].totalSent.v + sumSent[S \ {id}]
      sumExpected[S \in SUBSET DOMAIN per] ==
        IF S = {} THEN 0
        ELSE LET id == CHOOSE x \in S : TRUE IN per[id].totalExpected.v + sumExpected[S \ {id}]
      returns == {i \in DOMAIN txns : txns[i].type = "return"}
      sumReturned[S \in SUBSET returns] ==
        IF S = {} THEN 0
        ELSE LET i == CHOOSE x \in S : TRUE IN txns[i].amount.v + sumReturned[S \ {i}]
  IN (\A i \in DOMAIN txns : txns[i].amount.k = "num")
     => /\ tot.totalSent = Num(sumSent[DOMAIN per])
        /\ tot.totalExpected = Num(sumExpected[DOMAIN per])
        /\ tot.totalReturned = Num(sumReturned[returns])
        /\ tot.overallBalance = Num(sumExpected[DOMAIN per] - sumReturned[returns])

\* C4 witness: two employees expecting 900 and 700, returns of 500, one of them
\* attributed to an employee or not, and an overallBalance of 1100.
C4_Witness ==
  LET per == computeSummary(state)
      tot == computeOverallTotals(state)
  IN /\ \E a, b \in DOMAIN per :
          a # b /\ per[a].totalExpected = Num(900) /\ per[b].totalExpected = Num(700)
     /\ \E i \in DOMAIN state.transactions : state.transactions[i].type = "return"
     /\ tot.totalExpected = Num(1600)
     /\ tot.totalReturned = Num(500)
     /\ tot.overallBalance = Num(1100)

C6_DeleteNoCascade ==
  [][lastOp' = "employeeDelete" =>
       LET emps == state.employees
           txns == state'.transactions
           per == computeSummary(state')
           tot == computeOverallTotals(state')
           kept == {i \in DOMAIN txns : /\ txns[i].type = "outgoing"
                                        /\ txns[i].employeeId \in EmpIds(state'.employees)}
           owner(t) == CHOOSE e \in {state'.employees[j] : j \in DOMAIN state'.employees} :
                         e.id = t.employeeId
           sumSent[S \in SUBSET kept] ==
             IF S = {} THEN 0
             ELSE LET i == CHOOSE x \in S : TRUE IN txns[i].amount.v + sumSent[S \ {i}]
           sumExpected[S \in SUBSET kept] ==
             IF S = {} THEN 0
             ELSE LET i == CHOOSE x \in S : TRUE
                  IN expectedReturn(txns[i], computedCut(txns[i], owner(txns[i]))).v
                     + sumExpected[S \ {i}]
       IN /\ txns = state.transactions
          /\ \E d \in DOMAIN emps :
               state'.employees = [k \in 1..(Len(emps) - 1) |->
                                     IF k < d THEN emps[k] ELSE emps[k + 1]]
          /\ \A i \in DOMAIN txns :
               (txns[i].type = "outgoing" /\ i \notin kept)
               => \A id \in DOMAIN per : \A k \in DOMAIN per[id].outgoings :
                    per[id].outgoings[k].txn # txns[i]
          /\ tot.totalSent = Num(sumSent[kept])
          /\ tot.totalExpected = Num(sumExpected[kept])]_vars

\* C6 witness: an employee was just deleted, one outgoing still names it and
\* another names an employee that exists; totalSent counts the second alone.
C6_Witness ==
  /\ lastOp = "employeeDelete"
  /\ \E i, j \in DOMAIN state.transactions :
       /\ state.transactions[i].type = "outgoing" /\ state.transactions[j].type = "outgoing"
       /\ state.transactions[i].employeeId # NoEmployee
       /\ state.transactions[i].employeeId \notin EmpIds(state.employees)
       /\ state.transactions[j].employeeId \in EmpIds(state.employees)
       /\ computeOverallTotals(state).totalSent = state.transactions[j].amount

-----------------------------------------------------------------------------
(* SpecMatch: returns imported from CSV, then matched against statements *)

MatchEmps == 1
MatchTxns == 2
MatchEntries == 2

Iso10Jan == <<"2", "0", "2", "4", "-", "0", "1", "-", "1", "0">>
Iso14Jan == <<"2", "0", "2", "4", "-", "0", "1", "-", "1", "4">>
Slash09Jan == <<"0", "9", "/", "0", "1", "/", "2", "0", "2", "4">>
Slash10Jan == <<"1", "0", "/", "0", "1", "/", "2", "0", "2", "4">>
Month11Jan == <<"1", "1", " ", "J", "a", "n", " ", "2", "0", "2", "4">>
Utr1 == <<"U", "T", "R", "1", "2", "3", "4", "5">>
Utr9 == <<"U", "T", "R", "9", "9", "9", "9", "9">>
Upi == <<"U", "P", "I">>
Neft == <<"N", "E", "F", "T">>
LongDesc == [i \in 1..(SourceMax + 1) |-> IF i <= SourceMax THEN "x" ELSE "y"]

\* entries as mapRowToEntry and parseLinesToEntries make them: a date text
\* that one of the two patterns matches or none, an amount that is not 0
Entry09 == [date |-> Slash09Jan, amount |-> Num(500), desc |-> Upi, ref |-> Utr1, mode |-> Upi]
Entry11 == [date |-> Month11Jan, amount |-> Num(500), desc |-> LongDesc, ref |-> <<>>, mode |-> <<>>]
Entry14 == [date |-> Iso14Jan, amount |-> Num(500), desc |-> Neft, ref |-> Utr9, mode |-> Neft]
EntryNoDate == [date |-> <<>>, amount |-> Num(500), desc |-> Neft, ref |-> Utr9, mode |-> Neft]
Entries == {Entry09, Entry11, Entry14, EntryNoDate}

MatchRetRows ==
  [amount : {T500}, date : {Iso10Jan, Slash10Jan, <<>>}, ref : {<<>>, Utr9},
   mode : {<<>>}, source : {<<>>}]
  \cup
  [amount : {T700}, date : {Slash10Jan}, ref : {<<>>}, mode : {<<>>}, source : {<<>>}]
MatchOutRows ==
  [employee : {Asha}, amount : {T500}, cut : {<<>>}, date : {Slash10Jan},
   mode : {<<>>}, ref : {<<>>}]

NextMatch ==
  \/ \E rows \in Files(MatchRetRows, MaxRows) :
       ImportIncomingCSV(rows) /\ Fits(state', MatchEmps, MatchTxns)
  \/ \E rows \in Files(MatchOutRows, MaxRows) :
       ImportOutgoingCSV(rows) /\ Fits(state', MatchEmps, MatchTxns)
  \/ \E entries \in Files(Entries, MatchEntries) : StatementImport(entries)
  \/ StatementImport(<<>>)

SpecMatch == Init /\ [][NextMatch]_vars

\* C7: after a statement import, a return dated 2024-01-10 of amount 500 with
\* nothing filled in has been backfilled from the entry dated 09/01/2024 of
\* amount 500 when that was the statement, and is as it was when the statement
\* was the entry of amount 500 dated 2024-01-14.
C7_ExampleMatch ==
  lastOp = "statementImport" =>
    \A i \in DOMAIN run.before :
      LET t == run.before[i]
      IN (/\ t.type = "return" /\ t.amount = Num(500) /\ t.date = Iso10Jan
          /\ t.ref = <<>> /\ t.mode = <<>> /\ t.source = <<>>)
         => /\ run.entries = <<Entry09>>
               => state.transactions[i] = [t EXCEPT !.ref = Entry09.ref, !.mode = Entry09.mode,
                                                    !.source = Entry09.desc]
            /\ run.entries = <<Entry14>> => state.transactions[i] = t

\* C8: a statement import leaves the employees and the length of the
\* transaction list alone, changes no transaction that is not a return, changes
\* of a return only ref, mode and source, each only when it was empty, and a
\* source it fills is the description of an entry cut to 140 characters.
C8_MatcherFrame ==
  [][lastOp' = "statementImport" =>
       LET old == state.transactions
           new == state'.transactions
           entries == run'.entries
       IN /\ state'.employees = state.employees
          /\ Len(new) = Len(old)
          /\ \A i \in DOMAIN old :
               LET t == old[i]
                   u == new[i]
               IN /\ [u EXCEPT !.ref = t.ref, !.mode = t.mode, !.source = t.source] = t
                  /\ t.type # "return" => u = t
                  /\ t.ref # <<>> => u.ref = t.ref
                  /\ t.mode # <<>> => u.mode = t.mode
                  /\ t.source # <<>> => u.source = t.source
                  /\ u.ref # t.ref => \E j \in DOMAIN entries : u.ref = entries[j].ref
                  /\ u.mode # t.mode => \E j \in DOMAIN entries : u.mode = entries[j].mode
                  /\ u.source # t.source =>
                       \E j \in DOMAIN entries :
                         LET desc == entries[j].desc
                         IN /\ Len(u.source) <= 140
                            /\ u.source = SubSeq(desc, 1, IF Len(desc) > 140 THEN 140
                                                          ELSE Len(desc))]_vars

\* C8 witness: a run that filled the ref of a return and kept its source, 140
\* characters cut from a longer description by an earlier run, while the
\* entry it matched carries another description; an outgoing sits next to it.
C8_Witness ==
  /\ lastOp = "statementImport"
  /\ run.updates > 0
  /\ \E i, j \in DOMAIN state.transactions :
       /\ Len(run.before[i].source) = 140
       /\ state.transactions[i].source = run.before[i].source
       /\ run.before[i].ref = <<>>
       /\ state.transactions[i].ref # <<>>
       /\ \A k \in DOMAIN run.entries : run.entries[k].desc # run.before[i].source
       /\ state.transactions[j].type = "outgoing"

\* C9: running the matcher again on the entries of the run just made leaves
\* every transaction as it is and returns an updated-count of 0.
C9_Idempotent ==
  lastOp = "statementImport" =>
    LET again == applyStatementMatches(state.transactions, run.entries)
    IN again.transactions = state.transactions /\ again.updates = 0

\* C9 witness: a second run on the same entries: a return matches an entry and
\* holds its ref, mode and description, nothing changed and the count is 0.
C9_Witness ==
  /\ lastOp = "statementImport"
  /\ run.updates = 0
  /\ run.before = state.transactions
  /\ \E i \in DOMAIN state.transactions : \E j \in DOMAIN run.entries :
       /\ state.transactions[i].type = "return"
       /\ state.transactions[i].amount = run.entries[j].amount
       /\ state.transactions[i].ref = run.entries[j].ref /\ run.entries[j].ref # <<>>
       /\ state.transactions[i].mode = run.entries[j].mode /\ run.entries[j].mode # <<>>
       /\ state.transactions[i].source = run.entries[j].desc

\* C10: a statement import changes no transaction whose date normalizes to the
\* empty key, takes no entry whose date normalizes to the empty key as the
\* match of any transaction, and changes nothing at all when every entry is
\* such an entry.
C10_EmptyKeyNeverMatches ==
  lastOp = "statementImport" =>
    /\ \A i \in DOMAIN run.before :
         toKey(run.before[i].date) = <<>> => state.transactions[i] = run.before[i]
    /\ \A i \in DOMAIN run.before : \A j \in DOMAIN run.entries :
         toKey(run.entries[j].date) = <<>> => findHit(run.before[i], run.entries) # j
    /\ (\A j \in DOMAIN run.entries : toKey(run.entries[j].date) = <<>>)
       => state.transactions = run.before /\ run.updates = 0

\* C10 witness: a run whose first entry has no date and the amount of two
\* returns: the return without a date is as it was, the dated one was
\* filled from the second entry.
C10_Witness ==
  /\ lastOp = "statementImport"
  /\ Len(run.entries) = 2
  /\ run.entries[1].date = <<>>
  /\ \E i, j \in DOMAIN run.before :
       /\ run.before[i].type = "return" /\ run.before[i].date = <<>>
       /\ run.before[i].amount = run.entries[1].amount
       /\ run.before[i].ref = <<>>
       /\ state.transactions[i] = run.before[i]
       /\ run.before[j].amount = run.entries[1].amount
       /\ state.transactions[j] # run.before[j]
       /\ state.transactions[j].mode = run.entries[2].mode

-----------------------------------------------------------------------------
(* SpecWs: choosing a workspace and loading its document *)

\* setWorkspace calls accepted; the token never exceeds this
MaxLoads == 3
WsEmps == 2
WsTxns == 1

\* texts typed into the workspace dialog
WsInputs == {<<" ">>, WsA, <<" ", "b">>}

isStaleNever(currentToken, token) == FALSE

\* the test of load() after the read: the token moved on, drop the result
isStale(currentToken, token) == currentToken # token

\* a handler that starts with if(controlsDisabled) return showWarn(...)
Guarded(op, A) ==
  IF controlsDisabled THEN Reject(op, "Pick a workspace first.") ELSE A

\* setWorkspace(id), up to the await of the read it starts
SetWorkspace(id) ==
  LET code == Trim(id)
  IN IF code = <<>>
     THEN Reject("setWorkspace", "Workspace code is required.")
     ELSE /\ wsLoadToken < MaxLoads
          /\ workspaceId' = code
          /\ controlsDisabled' = TRUE
          /\ wsLoadToken' = wsLoadToken + 1
          /\ loads' = Append(loads, [ws |-> code, status |-> "pending"])
          /\ lastOp' = "setWorkspace"
          /\ run' = NoRun
          /\ UNCHANGED <<rev, state, stored, alert, docs, ocrVars>>

\* what load(currentToken) does when its read completes: failed, stale,
\* applied (the document exists) or created (it does not)
loadOutcome(currentToken, ok) ==
  IF ~ok THEN "failed"
  ELSE IF isStale(currentToken, wsLoadToken) THEN "stale"
  ELSE IF docs[loads[currentToken].ws].exists THEN "applied"
  ELSE "created"

\* the read issued by load(currentToken) completes (ok) or fails, and the
\* rest of load and of the readyPromise of setWorkspace runs
LoadDone(currentToken, ok) ==
  /\ currentToken \in DOMAIN loads
  /\ loads[currentToken].status = "pending"
  /\ \E outcome \in {loadOutcome(currentToken, ok)} :
       /\ loads' = [loads EXCEPT ![currentToken].status = outcome]
       /\ state' = IF outcome = "applied" THEN docs[loads[currentToken].ws].data ELSE state
       /\ docs' = IF outcome = "created"
                  THEN [docs EXCEPT ![workspaceId] = DocOf(state)]
                  ELSE docs
       /\ stored' = IF outcome = "created" THEN state ELSE stored
       /\ alert' = IF outcome = "failed" THEN "Load failed. Using local in-memory state."
                   ELSE alert
  /\ controlsDisabled' = IF currentToken = wsLoadToken THEN FALSE ELSE controlsDisabled
  /\ lastOp' = "load"
  /\ run' = NoRun
  /\ UNCHANGED <<rev, workspaceId, wsLoadToken, ocrVars>>

\* the page before a workspace is chosen
InitWs ==
  /\ rev \in {"upload", "stmt"}
  /\ state = EmptyLedger
  /\ stored = EmptyLedger
  /\ alert = ""
  /\ lastOp = "init"
  /\ run = NoRun
  /\ workspaceId = <<>>
  /\ wsLoadToken = 0
  /\ controlsDisabled = TRUE
  /\ loads = <<>>
  /\ docs \in [Workspaces -> {NoDoc, DocOf(EmptyLedger), DocOf(SampleLedger)}]
  /\ workers = 0
  /\ batches = <<>>
  /\ call = NoCall

NextWs ==
  \/ \E id \in WsInputs : SetWorkspace(id)
  \/ \E currentToken \in 1..MaxLoads, ok \in BOOLEAN : LoadDone(currentToken, ok)
  \/ Guarded("addEmployee", AddEmployee) /\ Fits(state', WsEmps, WsTxns)
  \/ Guarded("clearAll", ClearAll)

SpecWs == InitWs /\ [][NextWs]_vars

\* C11: a read that completes after the workspace was switched again (its token
\* is no longer the load token) leaves the in-memory ledger as it was, and once
\* no read is outstanding and the read of the last chosen workspace found its
\* document, the in-memory ledger is the data of that workspace.
C11_StaleLoadDropped ==
  /\ [][\A t \in DOMAIN loads :
          (loads[t].status = "pending" /\ loads'[t].status # "pending" /\ t # wsLoadToken)
            => state' = state]_vars
  /\ []((/\ wsLoadToken > 0
         /\ \A t \in DOMAIN loads : loads[t].status # "pending"
         /\ loads[wsLoadToken].status = "applied")
        => state = docs[workspaceId].data)

\* two workspaces with different documents were chosen one after the other, the
\* second read completed first and the first, superseded, read completed last
C11_Witness ==
  /\ Len(loads) = 2
  /\ loads[1].ws # loads[2].ws
  /\ loads[1].status = "stale"
  /\ loads[2].status = "applied"
  /\ lastOp = "load"
  /\ docs[loads[1].ws].exists
  /\ docs[loads[1].ws].data # docs[loads[2].ws].data
  /\ state = docs[workspaceId].data

-----------------------------------------------------------------------------
(* SpecOcr: the Process handler runs OCR over the chosen screenshots and     *)
(* shows a review card or a failure notice for each.  A run of the handler   *)
(* is a record: n files, the file k it is at, the pending call pc of         *)
(* ocrImage, the counter done and the items out it appended to the list.     *)
(* The list itself is not modelled: a card stays available after it was      *)
(* saved or discarded.  worker.terminate() is taken to succeed.              *)

MaxFiles == 2
MaxBatches == 2
OcrEmps == 1
OcrTxns == 1

fileDoneAbort(batch, item) ==
  [batch EXCEPT !.out = Append(@, item),
                !.done = @ + 1,
                !.k = IF batch.k < batch.n /\ item # "fail" THEN @ + 1 ELSE @,
                !.pc = IF batch.k < batch.n /\ item # "fail" THEN "create" ELSE "finished"]

\* catch/finally of the loop body and the step of the for loop
fileDone(batch, item) ==
  [batch EXCEPT !.out = Append(@, item),
                !.done = @ + 1,
                !.k = IF batch.k < batch.n THEN @ + 1 ELSE @,
                !.pc = IF batch.k < batch.n THEN "create" ELSE "finished"]

\* an awaited call of the OCR flow completed
OcrStep ==
  /\ lastOp' = "ocr"
  /\ run' = NoRun
  /\ UNCHANGED <<rev, alert, wsVars, call>>

\* click on Process with n files chosen
ProcessClick(n) ==
  IF rev # "local" /\ controlsDisabled
  THEN Reject("process", "Pick a workspace first.")
  ELSE IF n = 0
  THEN Reject("process", IF rev = "upload" THEN "Choose one or more screenshots first."
                         ELSE "Please choose screenshots")
  ELSE /\ Len(batches) < MaxBatches
       /\ batches' = Append(batches, [n |-> n, k |-> 1, pc |-> "create", done |-> 0,
                                      out |-> <<>>])
       /\ lastOp' = "process"
       /\ run' = NoRun
       /\ UNCHANGED <<rev, state, stored, alert, wsVars, docs, workers, call>>

\* Tesseract.createWorker() of run b resolves (ok) or rejects
CreateDone(b, ok) ==
  /\ b \in DOMAIN batches
  /\ batches[b].pc = "create"
  /\ IF ok
     THEN /\ workers' = workers + 1
          /\ batches' = [batches EXCEPT ![b].pc = "recognize"]
     ELSE /\ workers' = workers
          /\ batches' = [batches EXCEPT ![b] = fileDone(@, "fail")]
  /\ OcrStep
  /\ UNCHANGED <<state, stored, docs>>

\* worker.recognize(file) of run b resolves (ok) or rejects; a rejection goes
\* to the catch of the loop, past worker.terminate()
RecognizeDone(b, ok) ==
  /\ b \in DOMAIN batches
  /\ batches[b].pc = "recognize"
  /\ batches' = IF ok THEN [batches EXCEPT ![b].pc = "terminate"]
                ELSE [batches EXCEPT ![b] = fileDone(@, "fail")]
  /\ OcrStep
  /\ UNCHANGED <<state, stored, docs, workers>>

TerminateDoneCommit(b) ==
  /\ b \in DOMAIN batches
  /\ batches[b].pc = "terminate"
  /\ workers' = workers - 1
  /\ batches' = [batches EXCEPT ![b] = fileDone(@, "card")]
  /\ OcrStep
  /\ state' = [state EXCEPT !.transactions = Append(@,
                 [id |-> uidTxn(state), type |-> "return", employeeId |-> NoEmployee,
                  amount |-> Num(500), mode |-> <<>>, date |-> <<>>, ref |-> <<>>,
                  source |-> <<>>, cutOverride |-> Null])]
  /\ stored' = state'
  /\ docs' = [docs EXCEPT ![workspaceId] = DocOf(state')]

\* worker.terminate() of run b resolves: the text is parsed and its card shown
TerminateDone(b) ==
  /\ b \in DOMAIN batches
  /\ batches[b].pc = "terminate"
  /\ workers' = workers - 1
  /\ batches' = [batches EXCEPT ![b] = fileDone(@, "card")]
  /\ OcrStep
  /\ UNCHANGED <<state, stored, docs>>

\* a review card is on the page
CardShown ==
  \E b \in DOMAIN batches : \E i \in DOMAIN batches[b].out : batches[b].out[i] = "card"

\* Save on a review card
SaveCard(f) == CardShown /\ CardSave(f)

\* Discard on a review card: card.remove()
Discard ==
  /\ CardShown
  /\ lastOp' = "discard"
  /\ run' = NoRun
  /\ UNCHANGED <<rev, state, stored, alert, wsVars, docs, ocrVars>>

OcrForms ==
  [type : Types, employeeId : 0..OcrEmps, amount : {T500, TAbc, <<>>},
   mode : {<<>>}, date : {<<>>}, ref : {<<>>}, source : {<<>>}]

NextOcr ==
  \/ \E n \in 0..MaxFiles : ProcessClick(n)
  \/ \E b \in 1..MaxBatches, ok \in BOOLEAN : CreateDone(b, ok)
  \/ \E b \in 1..MaxBatches, ok \in BOOLEAN : RecognizeDone(b, ok)
  \/ \E b \in 1..MaxBatches : TerminateDone(b)
  \/ \E f \in OcrForms : SaveCard(f) /\ Fits(state', OcrEmps, OcrTxns)
  \/ Discard
  \/ AddEmployee /\ Fits(state', OcrEmps, OcrTxns)

SpecOcr == Init /\ [][NextOcr]_vars

\* every pending OCR call of every run completes or fails in the end
OcrCallsComplete ==
  \A b \in 1..MaxBatches :
    WF_vars(\E ok \in BOOLEAN : CreateDone(b, ok) \/ RecognizeDone(b, ok) \/ TerminateDone(b))

SpecOcrLive == SpecOcr /\ OcrCallsComplete

\* C12: while one run of the Process handler is going on, at most one
\* recognition worker is alive (created and not terminated).
C12_OneWorkerAlive == Len(batches) <= 1 => workers <= 1

C14_OcrNeverCommits ==
  /\ [][lastOp' \in {"process", "ocr", "discard"} => UNCHANGED <<state, stored, docs>>]_vars
  /\ [][state'.transactions # state.transactions => lastOp' = "cardSave"]_vars

\* a run over two files has just shown its second card and nothing was saved
C14_Witness ==
  /\ lastOp = "ocr"
  /\ \E b \in DOMAIN batches :
       batches[b].pc = "finished" /\ batches[b].out = <<"card", "card">>
  /\ state.transactions = <<>>
  /\ stored.transactions = <<>>

\* C15: Save on a review card either appends one transaction whose amount is a
\* number other than zero and which, when outgoing, names an employee, or it
\* shows a message and leaves the ledger, the stored copy and the documents
\* as they were.
C15_InvalidCardRejected ==
  [][lastOp' = "cardSave" =>
       IF state' = state
       THEN /\ alert' \in {"Amount missing/invalid", "Choose an employee for outgoing",
                           "Please choose an employee for outgoing"}
            /\ UNCHANGED <<stored, docs>>
       ELSE /\ Len(state'.transactions) = Len(state.transactions) + 1
            /\ SubSeq(state'.transactions, 1, Len(state.transactions)) = state.transactions
            /\ LET rec == state'.transactions[Len(state'.transactions)]
               IN /\ rec.amount.k = "num"
                  /\ rec.amount.v # 0
                  /\ rec.type = "outgoing" => rec.employeeId # NoEmployee]_vars

\* Save of an outgoing card with an amount and no employee was refused: the
\* ledger holds no transaction and the stored copy is the ledger
C15_Witness ==
  /\ lastOp = "cardSave"
  /\ alert \in {"Choose an employee for outgoing", "Please choose an employee for outgoing"}
  /\ state.transactions = <<>>
  /\ stored = state

-----------------------------------------------------------------------------
(* SpecImport: imports of JSON files and of CSV files of ImportRows rows, of *)
(* which a row may lack a usable amount                                      *)

ImportRows == 2
ImportEmps == 1
ImportTxns == 4

ImportOutRows ==
  [employee : {Asha}, amount : {T500, TAbc}, cut : {<<>>},
   mode : {<<>>}, date : {<<>>}, ref : {<<>>}]
ImportRetRows ==
  [amount : {T500, TAbc}, mode : {<<>>}, date : {<<>>}, ref : {<<>>}, source : {<<>>}]

NextImport ==
  \/ \E rows \in [1..ImportRows -> ImportOutRows] :
       ImportOutgoingCSV(rows) /\ Fits(state', ImportEmps, ImportTxns)
  \/ \E rows \in [1..ImportRows -> ImportRetRows] :
       ImportIncomingCSV(rows) /\ Fits(state', ImportEmps, ImportTxns)
  \/ \E file \in JsonFiles : ImportJSON(file)
  \/ ClearAll

SpecImport == Init /\ [][NextImport]_vars

\* C16: an import either is aborted with an alert, the ledger, the stored copy
\* and the documents being what they were, or is applied as a whole: every row
\* of the CSV file became a transaction, or the ledger is the JSON file's.
C16_ImportAllOrNothing ==
  [][lastOp' \in {"importOutgoing", "importIncoming", "importJSON"} =>
       \/ /\ alert' \in {"Failed to parse JSON.", "Invalid JSON structure.",
                         "Failed to import Outgoing CSV.", "Failed to import Incoming CSV."}
          /\ UNCHANGED <<state, stored, docs>>
       \/ /\ lastOp' = "importJSON"
          /\ alert' = ""
          /\ stored' = state'
       \/ /\ lastOp' # "importJSON"
          /\ Len(state'.transactions) = Len(state.transactions) + ImportRows
          /\ stored' = state']_vars

-----------------------------------------------------------------------------
(* exportJSON: JSON.stringify of the ledger, as JSON.parse reads it back *)

\* JSON.stringify writes NaN as null; numbers and null are written as they are
jsonNumber(x) == IF IsNaN(x) THEN Null ELSE x

jsonEmployee(e) == [e EXCEPT !.cutValue = jsonNumber(@)]
jsonTransaction(t) == [t EXCEPT !.amount = jsonNumber(@), !.cutOverride = jsonNumber(@)]

\* the file downloaded by exportJSON, as importJSONFile sees it: the text
\* parses, and arrays, empty or not, pass the test obj.employees && obj.transactions
exportJSON(st) ==
  [kind |-> "ledger",
   obj |-> [employees |-> [i \in DOMAIN st.employees |-> jsonEmployee(st.employees[i])],
            transactions |-> [i \in DOMAIN st.transactions |->
                                jsonTransaction(st.transactions[i])]]]

\* C17: importJSONFile of the file exported from the ledger installs a ledger
\* equal to it, field by field.
C17_JsonRoundTrip ==
  LET file == exportJSON(state)
  IN file.kind = "ledger" /\ file.obj = state

-----------------------------------------------------------------------------
(* OCR helpers: wordsToNumber *)

units ==
  <<"z", "e", "r", "o">> :> 0 @@ <<"o", "n", "e">> :> 1 @@ <<"t", "w", "o">> :> 2 @@
  <<"t", "h", "r", "e", "e">> :> 3 @@ <<"f", "o", "u", "r">> :> 4 @@ <<"f", "i", "v", "e">> :> 5 @@
  <<"s", "i", "x">> :> 6 @@ <<"s", "e", "v", "e", "n">> :> 7 @@ <<"e", "i", "g", "h", "t">> :> 8 @@
  <<"n", "i", "n", "e">> :> 9 @@ <<"t", "e", "n">> :> 10 @@ <<"e", "l", "e", "v", "e", "n">> :> 11 @@
  <<"t", "w", "e", "l", "v", "e">> :> 12 @@ <<"t", "h", "i", "r", "t", "e", "e", "n">> :> 13 @@ <<"f", "o", "u", "r", "t", "e", "e", "n">> :> 14 @@
  <<"f", "i", "f", "t", "e", "e", "n">> :> 15 @@ <<"s", "i", "x", "t", "e", "e", "n">> :> 16 @@ <<"s", "e", "v", "e", "n", "t", "e", "e", "n">> :> 17 @@
  <<"e", "i", "g", "h", "t", "e", "e", "n">> :> 18 @@ <<"n", "i", "n", "e", "t", "e", "e", "n">> :> 19

tens ==
  <<"t", "w", "e", "n", "t", "y">> :> 20 @@ <<"t", "h", "i", "r", "t", "y">> :> 30 @@ <<"f", "o", "r", "t", "y">> :> 40 @@
  <<"f", "i", "f", "t", "y">> :> 50 @@ <<"s", "i", "x", "t", "y">> :> 60 @@ <<"s", "e", "v", "e", "n", "t", "y">> :> 70 @@
  <<"e", "i", "g", "h", "t", "y">> :> 80 @@ <<"n", "i", "n", "e", "t", "y">> :> 90

scales ==
  <<"h", "u", "n", "d", "r", "e", "d">> :> 100 @@ <<"t", "h", "o", "u", "s", "a", "n", "d">> :> 1000 @@ <<"l", "a", "k", "h">> :> 100000 @@
  <<"l", "a", "c", "s">> :> 100000 @@ <<"l", "a", "k", "h", "s">> :> 100000 @@ <<"c", "r", "o", "r", "e">> :> 10000000 @@
  <<"c", "r", "o", "r", "e", "s">> :> 10000000

ignore == {<<"a", "n", "d">>, <<"r", "u", "p", "e", "e", "s">>, <<"r", "s">>, <<"o", "n", "l", "y">>}

\* \s of a regular expression, as far as the inputs go
Whitespace == {" ", "\n", "\t"}

\* .replace(/[^a-z\s\-]/g,' ')
blankOthers(s) ==
  [i \in DOMAIN s |-> IF s[i] \in {LowerOf[c] : c \in DOMAIN LowerOf} \cup Whitespace \cup {"-"}
                      THEN s[i] ELSE " "]

\* .replace(/\s+/g,' ')
RECURSIVE collapseSpaces(_, _)
collapseSpaces(s, i) ==
  IF i > Len(s) THEN <<>>
  ELSE IF s[i] \notin Whitespace THEN <<s[i]>> \o collapseSpaces(s, i + 1)
  ELSE IF i > 1 /\ s[i - 1] \in Whitespace THEN collapseSpaces(s, i + 1)
  ELSE <<" ">> \o collapseSpaces(s, i + 1)

\* .split(' '): the pieces between the blanks, cur being the piece begun
RECURSIVE splitSpaces(_, _, _)
splitSpaces(s, i, cur) ==
  IF i > Len(s) THEN <<cur>>
  ELSE IF s[i] = " " THEN <<cur>> \o splitSpaces(s, i + 1, <<>>)
  ELSE splitSpaces(s, i + 1, Append(cur, s[i]))

\* the tokens wordsToNumber loops over
wordTokens(raw) ==
  splitSpaces(Trim(collapseSpaces(blankOthers(ToLowerCase(raw)), 1)), 1, <<>>)

scaleStepNoDefault(acc, scale) ==
  [total |-> acc.total + acc.current * scale, current |-> 0, seen |-> TRUE]

\* a scale word: if(current===0) current=1; current*=scale; total+=current; current=0
scaleStep(acc, scale) ==
  [total |-> acc.total + (IF acc.current = 0 THEN 1 ELSE acc.current) * scale,
   current |-> 0, seen |-> TRUE]

\* the body of the loop for one token
wordStep(acc, token) ==
  IF token \in ignore THEN acc
  ELSE IF token \in DOMAIN units
  THEN [acc EXCEPT !.current = @ + units[token], !.seen = TRUE]
  ELSE IF token \in DOMAIN tens
  THEN [acc EXCEPT !.current = @ + tens[token], !.seen = TRUE]
  ELSE IF token \in DOMAIN scales THEN scaleStep(acc, scales[token])
  ELSE acc

RECURSIVE wordsLoop(_, _, _)
wordsLoop(tokens, i, acc) ==
  IF i > Len(tokens) THEN acc ELSE wordsLoop(tokens, i + 1, wordStep(acc, tokens[i]))

\* the return statement: seen ? total : null in src/app.js:90,
\* seen ? (total||null) : null in the later revisions
wordsResult(rv, acc) ==
  IF ~acc.seen THEN Null
  ELSE IF rv = "local" THEN Num(acc.total + acc.current)
  ELSE IF acc.total + acc.current = 0 THEN Null
  ELSE Num(acc.total + acc.current)

wordsToNumber(rv, raw) ==
  IF raw = <<>> THEN Null
  ELSE wordsResult(rv, wordsLoop(wordTokens(raw), 1,
                                 [total |-> 0, current |-> 0, seen |-> FALSE]))

\* a call of wordsToNumber on the text raw
WordsToNumber(raw) ==
  /\ call' = [fn |-> "wordsToNumber", arg |-> raw, result |-> wordsToNumber(rev, raw)]
  /\ lastOp' = "wordsToNumber"
  /\ UNCHANGED <<rev, state, stored, alert, run, wsVars, docs, workers, batches>>

-----------------------------------------------------------------------------
(* SpecWords: wordsToNumber over phrases of at most MaxWords words *)

MaxWords == 3

Zero == <<"z", "e", "r", "o">>
Two == <<"t", "w", "o">>
Five == <<"f", "i", "v", "e">>
Fifty == <<"f", "i", "f", "t", "y">>
Hundred == <<"h", "u", "n", "d", "r", "e", "d">>
Lakh == <<"l", "a", "k", "h">>
Rupees == <<"r", "u", "p", "e", "e", "s">>
Paid == <<"p", "a", "i", "d">>
Vocabulary == {Zero, Two, Five, Fifty, Hundred, Lakh, Rupees, Paid}

\* phrases as OCR gives them: capitals, punctuation, a line break
RsFiveHundredOnly ==
  <<"R", "s", ".", " ", "F", "i", "v", "e", " ", "H", "u", "n", "d", "r", "e", "d", " ", "o", "n", "l", "y">>
TwoLakhCommaFifty ==
  <<"T", "w", "o", " ", "L", "a", "k", "h", ",", "\n", "F", "i", "f", "t", "y">>

\* the words of ws with one blank between them
RECURSIVE joinWords(_, _)
joinWords(ws, i) ==
  IF i > Len(ws) THEN <<>>
  ELSE (IF i > 1 THEN <<" ">> ELSE <<>>) \o ws[i] \o joinWords(ws, i + 1)

WordTexts ==
  {joinWords(ws, 1) : ws \in UNION {[1..k -> Vocabulary] : k \in 0..MaxWords}}
    \cup {RsFiveHundredOnly, TwoLakhCommaFifty}

\* the page with a text about to be given to wordsToNumber
InitWords == InitPage /\ call \in [fn : {"none"}, arg : WordTexts, result : {Null}]

NextWords == call.fn = "none" /\ WordsToNumber(call.arg)

SpecWords == InitWords /\ [][NextWords]_vars

\* C18: wordsToNumber gives 200050 for "two lakh fifty", 500 for "five hundred"
\* and null for the empty text; a scale word alone gives the scale, a unit or
\* tens word followed by a scale word gives their product (a zero counting as
\* one), a scale word followed by a unit or tens word above zero gives their
\* sum, and a filler word between two words changes nothing.
C18_WordsToNumber ==
  call.fn = "wordsToNumber" =>
    LET small == (DOMAIN units \cup DOMAIN tens) \cap Vocabulary
        big == DOMAIN scales \cap Vocabulary
        val(u) == IF u \in DOMAIN units THEN units[u] ELSE tens[u]
    IN /\ call.arg = joinWords(<<Two, Lakh, Fifty>>, 1) => call.result = Num(200050)
       /\ call.arg = TwoLakhCommaFifty => call.result = Num(200050)
       /\ call.arg = joinWords(<<Five, Hundred>>, 1) => call.result = Num(500)
       /\ call.arg = RsFiveHundredOnly => call.result = Num(500)
       /\ call.arg = <<>> => call.result = Null
       /\ \A s \in big : call.arg = s => call.result = Num(scales[s])
       /\ \A u \in small, s \in big :
            /\ call.arg = joinWords(<<u, s>>, 1)
                 => call.result = Num((IF val(u) = 0 THEN 1 ELSE val(u)) * scales[s])
            /\ (call.arg = joinWords(<<s, u>>, 1) /\ val(u) > 0)
                 => call.result = Num(scales[s] + val(u))
       /\ \A a \in Vocabulary, b \in Vocabulary :
            call.arg = joinWords(<<a, Rupees, b>>, 1)
              => call.result = wordsToNumber(rev, joinWords(<<a, b>>, 1))

\* wordsToNumber was called on "two lakh fifty" and gave 200050
C18_Witness ==
  /\ call.fn = "wordsToNumber"
  /\ call.arg = joinWords(<<Two, Lakh, Fifty>>, 1)
  /\ call.result = Num(200050)

\* C19: wordsToNumber gives null exactly when none of the words of the text is
\* a unit, tens or scale word; "zero" and "zero rupees" give 0.
C19_NullOnlyWhenNothingSeen ==
  call.fn = "wordsToNumber" =>
    LET tokens == wordTokens(call.arg)
        seen == \E i \in DOMAIN tokens :
                  tokens[i] \in DOMAIN units \cup DOMAIN tens \cup DOMAIN scales
    IN /\ call.result = Null <=> (call.arg = <<>> \/ ~seen)
       /\ call.arg \in {Zero, joinWords(<<Zero, Rupees>>, 1)} => call.result = Num(0)

-----------------------------------------------------------------------------
(* OCR helpers: extractAmount.  Weights are written times ten: 50, 40, 30,   *)
(* 20 and 12 for 5, 4, 3, 2 and 1.2.                                         *)

\* \w of a regular expression
WordChars == Letters \cup Digits \cup {"_"}

\* the text s reads the lower-case word at position i, whatever its case (flag i)
ReadsAt(s, i, word) ==
  /\ i >= 1
  /\ i + Len(word) - 1 <= Len(s)
  /\ \A j \in 1..Len(word) :
       (IF s[i + j - 1] \in DOMAIN LowerOf THEN LowerOf[s[i + j - 1]] ELSE s[i + j - 1]) = word[j]

\* the word at position i is followed by \b
ReadsWordAt(s, i, word) ==
  /\ ReadsAt(s, i, word)
  /\ i + Len(word) > Len(s) \/ s[i + Len(word)] \notin WordChars

\* text.split(/\n+/).map(s => s.trim()).filter(Boolean)
RECURSIVE splitLines(_, _, _)
splitLines(s, i, cur) ==
  IF i > Len(s) THEN (IF Trim(cur) = <<>> THEN <<>> ELSE <<Trim(cur)>>)
  ELSE IF s[i] = "\n"
  THEN (IF Trim(cur) = <<>> THEN <<>> ELSE <<Trim(cur)>>) \o splitLines(s, i + 1, <<>>)
  ELSE splitLines(s, i + 1, Append(cur, s[i]))

\* [0-9\s,]* from position i: how many characters it takes
RECURSIVE sepRun(_, _)
sepRun(s, i) ==
  IF i <= Len(s) /\ s[i] \in Digits \cup Whitespace \cup {","} THEN 1 + sepRun(s, i + 1) ELSE 0

\* (?:\.\d{1,2})? after position e: the last position of the match
fractionEnd(s, e) ==
  IF e + 2 <= Len(s) /\ s[e + 1] = "." /\ s[e + 2] \in Digits
  THEN (IF e + 3 <= Len(s) /\ s[e + 3] \in Digits THEN e + 3 ELSE e + 2)
  ELSE e

\* ([0-9][0-9\s,]*(?:\.\d{1,2})?) matched at the digit at position i: its end
numberEnd(s, i) == fractionEnd(s, i + sepRun(s, i + 1))

\* line.matchAll of that expression from position i on: the texts matched
RECURSIVE numberTokens(_, _)
numberTokens(s, i) ==
  IF i > Len(s) THEN <<>>
  ELSE IF s[i] \in Digits
  THEN <<SubSeq(s, i, numberEnd(s, i))>> \o numberTokens(s, numberEnd(s, i) + 1)
  ELSE numberTokens(s, i + 1)

\* s.replace(/[Oo]/g,"0").replace(/[Il]/g,"1").replace(/[,\s]/g,"")
cleanNumericToken(s) ==
  SelectSeq([i \in DOMAIN s |-> IF s[i] \in {"O", "o"} THEN "0"
                                ELSE IF s[i] \in {"I", "l"} THEN "1" ELSE s[i]],
            LAMBDA c : c \notin Whitespace \cup {","})

\* /[,\s]/.test(raw)
hasSeparator(raw) == \E i \in DOMAIN raw : raw[i] \in Whitespace \cup {","}

\* add(val, weight): a candidate, unless val is null or NaN
add(cands, val, weight, raw) ==
  IF val = Null \/ IsNaN(val) THEN cands
  ELSE Append(cands, [val |-> val.v, weight |-> weight, raw |-> raw])

\* (?:₹|rs\.?|inr)\s* read at position i: the position after it, 0 when it
\* does not lead to a digit
currencyDigitAt(s, i) ==
  LET after(p) == p + SpaceRun(s, p)
      isDigit(p) == p <= Len(s) /\ s[p] \in Digits
      viaSign == IF i <= Len(s) /\ s[i] = "₹" THEN after(i + 1) ELSE 0
      viaRsDot == IF ReadsAt(s, i, <<"r", "s">>) /\ i + 2 <= Len(s) /\ s[i + 2] = "."
                  THEN after(i + 3) ELSE 0
      viaRs == IF ReadsAt(s, i, <<"r", "s">>) THEN after(i + 2) ELSE 0
      viaInr == IF ReadsAt(s, i, <<"i", "n", "r">>) THEN after(i + 3) ELSE 0
  IN IF viaSign # 0 /\ isDigit(viaSign) THEN viaSign
     ELSE IF viaRsDot # 0 /\ isDigit(viaRsDot) THEN viaRsDot
     ELSE IF viaRs # 0 /\ isDigit(viaRs) THEN viaRs
     ELSE IF viaInr # 0 /\ isDigit(viaInr) THEN viaInr
     ELSE 0

\* line.match of the currency expression: the text of its group, <<>> when
\* there is no match
RECURSIVE currencyMatch(_, _)
currencyMatch(s, i) ==
  IF i > Len(s) THEN <<>>
  ELSE IF currencyDigitAt(s, i) # 0
  THEN SubSeq(s, currencyDigitAt(s, i), numberEnd(s, currencyDigitAt(s, i)))
  ELSE currencyMatch(s, i + 1)

\* /(total amount|amount|debited|credited|paid|transfer)/i.test(line)
hasAmountKeyword(s) ==
  \E i \in DOMAIN s :
    \E word \in {<<"a", "m", "o", "u", "n", "t">>, <<"d", "e", "b", "i", "t", "e", "d">>,
                 <<"c", "r", "e", "d", "i", "t", "e", "d">>, <<"p", "a", "i", "d">>,
                 <<"t", "r", "a", "n", "s", "f", "e", "r">>} : ReadsAt(s, i, word)

\* lineLooksLikeTime that never finds a time
lineLooksLikeTimeNever(s) == FALSE

\* /\d{1,2}:\d{2}/.test(line) && /(am|pm)\b/i.test(line)
lineLooksLikeTime(s) ==
  /\ \E i \in DOMAIN s :
       /\ s[i] \in Digits
       /\ i + 3 <= Len(s)
       /\ s[i + 1] = ":"
       /\ s[i + 2] \in Digits
       /\ s[i + 3] \in Digits
  /\ \E i \in DOMAIN s : ReadsWordAt(s, i, <<"a", "m">>) \/ ReadsWordAt(s, i, <<"p", "m">>)

\* [A-Za-z\s\-]+ from position i: how many characters it takes
RECURSIVE phraseRun(_, _)
phraseRun(s, i) ==
  IF i <= Len(s) /\ s[i] \in Letters \cup Whitespace \cup {"-"} THEN 1 + phraseRun(s, i + 1)
  ELSE 0

\* the places where \s+(?:rupees|rs\.?|only)\b can end a phrase begun at i: the
\* positions k of the word, a blank before it and a character of the phrase
\* before the blank
phraseEnds(s, i) ==
  {k \in (i + 2)..(i + phraseRun(s, i)) :
     /\ s[k - 1] \in Whitespace
     /\ \/ ReadsWordAt(s, k, <<"r", "u", "p", "e", "e", "s">>)
        \/ ReadsWordAt(s, k, <<"r", "s">>)
        \/ ReadsWordAt(s, k, <<"o", "n", "l", "y">>)}

\* text.match(/([A-Za-z\s\-]+)\s+(?:rupees|rs\.?|only)\b/i): its group, the
\* leftmost start and from there the longest phrase; <<>> when there is no match
RECURSIVE wordsMatch(_, _)
wordsMatch(s, i) ==
  IF i > Len(s) THEN <<>>
  ELSE IF phraseEnds(s, i) # {}
  THEN SubSeq(s, i, (CHOOSE k \in phraseEnds(s, i) : \A h \in phraseEnds(s, i) : h <= k) - 2)
  ELSE wordsMatch(s, i + 1)

\* first loop: lines with a currency mark, weight 5
RECURSIVE currencyCands(_, _, _)
currencyCands(lines, i, cands) ==
  IF i > Len(lines) THEN cands
  ELSE currencyCands(lines, i + 1,
         IF currencyMatch(lines[i], 1) = <<>> THEN cands
         ELSE add(cands, ParseFloat(cleanNumericToken(currencyMatch(lines[i], 1))), 50,
                  currencyMatch(lines[i], 1)))

\* second loop: lines with an amount keyword, their first number, weight 4
RECURSIVE keywordCands(_, _, _)
keywordCands(lines, i, cands) ==
  IF i > Len(lines) THEN cands
  ELSE keywordCands(lines, i + 1,
         IF hasAmountKeyword(lines[i]) /\ numberTokens(lines[i], 1) # <<>>
         THEN add(cands, ParseFloat(cleanNumericToken(numberTokens(lines[i], 1)[1])), 40,
                  numberTokens(lines[i], 1)[1])
         ELSE cands)

\* the amount in words, weight 3
wordsCand(rv, text, cands) ==
  IF wordsMatch(text, 1) = <<>> THEN cands
  ELSE add(cands, wordsToNumber(rv, wordsMatch(text, 1)), 30, wordsMatch(text, 1))

\* /[,\s]/.test(raw) ? 2 : 1.2
fallbackWeight(raw) == IF hasSeparator(raw) THEN 20 ELSE 12

\* the tokens of one line in the last loop
RECURSIVE tokenCands(_, _, _)
tokenCands(toks, j, cands) ==
  IF j > Len(toks) THEN cands
  ELSE tokenCands(toks, j + 1,
         IF ParseFloat(cleanNumericToken(toks[j])).v < 50 THEN cands
         ELSE IF ~hasSeparator(toks[j]) /\ Len(SelectSeq(toks[j], LAMBDA c : c \in Digits)) >= 9
         THEN cands
         ELSE add(cands, ParseFloat(cleanNumericToken(toks[j])), fallbackWeight(toks[j]),
                  toks[j]))

\* last loop: every number of every line that does not look like a time
RECURSIVE fallbackCands(_, _, _)
fallbackCands(lines, i, cands) ==
  IF i > Len(lines) THEN cands
  ELSE fallbackCands(lines, i + 1,
         IF lineLooksLikeTime(lines[i]) THEN cands
         ELSE tokenCands(numberTokens(lines[i], 1), 1, cands))

\* the candidates collected by extractAmount
candidates(rv, text) ==
  fallbackCands(splitLines(text, 1, <<>>), 1,
    wordsCand(rv, text,
      keywordCands(splitLines(text, 1, <<>>), 1,
        currencyCands(splitLines(text, 1, <<>>), 1, <<>>))))

\* cands.sort((a, b) => b.weight - a.weight || b.val - a.val); cands[0].val
bestCand(cands) ==
  LET c == CHOOSE c \in {cands[i] : i \in DOMAIN cands} :
             \A i \in DOMAIN cands :
               \/ c.weight > cands[i].weight
               \/ c.weight = cands[i].weight /\ c.val >= cands[i].val
  IN Num(c.val)

extractAmountOf(cands) == IF cands = <<>> THEN Null ELSE bestCand(cands)

extractAmount(rv, text) == extractAmountOf(candidates(rv, text))

\* a call of extractAmount on the text
ExtractAmount(text) ==
  /\ call' = [fn |-> "extractAmount", arg |-> text, result |-> extractAmount(rev, text)]
  /\ lastOp' = "extractAmount"
  /\ UNCHANGED <<rev, state, stored, alert, run, wsVars, docs, workers, batches>>

-----------------------------------------------------------------------------
(* SpecExtract: extractAmount over texts of at most MaxLines lines *)

MaxLines == 2

LineRs1500 ==
  <<"R", "s", ".", " ", "1", ",", "5", "0", "0">>
LinePaid600 ==
  <<"P", "a", "i", "d", " ", "6", "0", "0", " ", "t", "o", " ", "A", "s", "h", "a">>
Line700 ==
  <<"7", "0", "0">>
Line600Abc ==
  <<"6", "0", "0", " ", "a", "b", "c">>
LineWords500 ==
  <<"f", "i", "v", "e", " ", "h", "u", "n", "d", "r", "e", "d", " ", "r", "u", "p", "e", "e", "s", " ", "o", "n", "l", "y">>
LineTime900 ==
  <<"1", "0", ":", "3", "0", " ", "a", "m", " ", "9", "0", "0">>
Line40 ==
  <<"4", "0">>
Line2000 ==
  <<"2", ",", "0", "0", "0">>
LineZeroRupees ==
  <<"z", "e", "r", "o", " ", "r", "u", "p", "e", "e", "s">>
LineRef ==
  <<"r", "e", "f", " ", "1", "2", "3", "4", "5", "6", "7", "8", "9">>
LineSign800 ==
  <<"₹", "8", "0", "0">>
Lines == {LineRs1500, LinePaid600, Line700, Line600Abc, LineWords500, LineTime900, Line40, Line2000, LineZeroRupees, LineRef, LineSign800}

\* the lines of ls with a line break between them
RECURSIVE joinLines(_, _)
joinLines(ls, i) ==
  IF i > Len(ls) THEN <<>>
  ELSE (IF i > 1 THEN <<"\n">> ELSE <<>>) \o ls[i] \o joinLines(ls, i + 1)

ExtractTexts == {joinLines(ls, 1) : ls \in UNION {[1..k -> Lines] : k \in 0..MaxLines}}

\* the page with a text about to be given to extractAmount
InitExtract == InitPage /\ call \in [fn : {"none"}, arg : ExtractTexts, result : {Null}]

NextExtract == call.fn = "none" /\ ExtractAmount(call.arg)

SpecExtract == InitExtract /\ [][NextExtract]_vars

\* C20: extractAmount gives null exactly when it collected no candidate and
\* otherwise the value of a candidate of the highest weight and, among those,
\* of the largest value; a fallback candidate weighs 2 when its number is
\* written with a comma or a blank between its digits and 1.2 when it is bare,
\* so that of the bare numbers 600 and 700 the larger is returned.
C20_ExtractAmountBest ==
  call.fn = "extractAmount" =>
    LET cands == candidates(rev, call.arg)
        separated(raw) ==
          \E k \in DOMAIN raw :
            /\ raw[k] \in Whitespace \cup {","}
            /\ \E d \in DOMAIN raw : d > k /\ raw[d] \in Digits
    IN /\ call.result = Null <=> cands = <<>>
       /\ cands # <<>> =>
            \E i \in DOMAIN cands :
              /\ call.result = Num(cands[i].val)
              /\ \A j \in DOMAIN cands :
                   \/ cands[j].weight < cands[i].weight
                   \/ cands[j].weight = cands[i].weight /\ cands[j].val <= cands[i].val
       /\ \A i \in DOMAIN cands :
            /\ cands[i].weight \in {50, 40, 30, 20, 12}
            /\ cands[i].weight = 20 => separated(cands[i].raw)
            /\ cands[i].weight = 12 => ~separated(cands[i].raw)
       /\ call.arg = joinLines(<<Line600Abc, Line700>>, 1) => call.result = Num(700)

-----------------------------------------------------------------------------
(* SpecExclusions: extractAmount over texts with clock times and long digit  *)
(* runs.  A number of the model has 32 bits, so the long run has 9 digits,   *)
(* the shortest length the code excludes.                                    *)

MaxExclLines == 2

LineSign1200 ==
  <<"₹", " ", "1", ",", "2", "0", "0">>
LineLong ==
  <<"9", "8", "7", "6", "5", "4", "3", "2", "1">>
LinePaidLong ==
  <<"P", "a", "i", "d", " ", "9", "8", "7", "6", "5", "4", "3", "2", "1">>
LineLongAbc ==
  <<"9", "8", "7", "6", "5", "4", "3", "2", "1", " ", "a", "b", "c">>
Line1030am ==
  <<"1", "0", ":", "3", "0", " ", "a", "m">>
LinePaidAt1030 ==
  <<"P", "a", "i", "d", " ", "a", "t", " ", "1", "0", ":", "3", "0", " ", "a", "m">>
ExclusionLines ==
  {LineSign1200, LineLong, LinePaidLong, LineLongAbc, Line1030am, LinePaidAt1030, LineTime900, Line700}

ExclusionTexts ==
  {joinLines(ls, 1) : ls \in UNION {[1..k -> ExclusionLines] : k \in 0..MaxExclLines}}

InitExclusions == InitPage /\ call \in [fn : {"none"}, arg : ExclusionTexts, result : {Null}]

NextExclusions == call.fn = "none" /\ ExtractAmount(call.arg)

SpecExclusions == InitExclusions /\ [][NextExclusions]_vars

\* the places of s where a run of 9 or more digits begins that is written
\* without separators: no comma or blank joins it to a further digit
bareLongRuns(s) ==
  {i \in DOMAIN s :
     /\ s[i] \in Digits
     /\ i = 1 \/ s[i - 1] \notin Digits \cup {","}
     /\ DigitRun(s, i) >= 9
     /\ numberEnd(s, i) >= i + DigitRun(s, i) =>
          \A k \in (i + DigitRun(s, i))..numberEnd(s, i) : s[k] \notin Digits}

\* C21: a text with the currency-marked amount 1,200 and a bare run of 9 or
\* more digits gives 1200, and the value of a bare run of 9 or more digits
\* without separators is never the amount returned.
C21_LongRunNeverAmount ==
  call.fn = "extractAmount" =>
    LET lines == splitLines(call.arg, 1, <<>>)
    IN /\ (/\ \E i \in DOMAIN lines : lines[i] = LineSign1200
           /\ \E i \in DOMAIN lines : bareLongRuns(lines[i]) # {})
          => call.result = Num(1200)
       /\ \A i \in DOMAIN lines :
            \A p \in bareLongRuns(lines[i]) :
              call.result # Num(DigitsValue(lines[i], p, DigitRun(lines[i], p)))

\* the numbers of the clock times H:MM and HH:MM of the line s
clockNumbers(s) ==
  UNION {{DigitsValue(s, i - 1, 1), DigitsValue(s, i + 1, 2)}
         \cup (IF i > 2 /\ s[i - 2] \in Digits THEN {DigitsValue(s, i - 2, 2)} ELSE {}) :
         i \in {k \in 2..(Len(s) - 2) :
                  s[k] = ":" /\ s[k - 1] \in Digits /\ s[k + 1] \in Digits /\ s[k + 2] \in Digits}}

\* C22 as stated: a line with a clock time and am or pm is skipped by every
\* tier, so that no number of its clock time is the amount returned.
C22_ClockNeverAmount ==
  call.fn = "extractAmount" =>
    LET lines == splitLines(call.arg, 1, <<>>)
    IN /\ call.arg = Line1030am => call.result = Null
       /\ \A i \in DOMAIN lines :
            lineLooksLikeTime(lines[i]) =>
              \A n \in clockNumbers(lines[i]) : call.result # Num(n)

\* C22: the fallback tier skips a line with a clock time and am or pm: a text
\* of such lines without currency mark, amount keyword or amount in words
\* gives null, the 900 after the time included; the keyword tier still reads
\* the first number of such a line.
C22_TimeLineSkippedInFallback ==
  call.fn = "extractAmount" =>
    LET lines == splitLines(call.arg, 1, <<>>)
    IN /\ call.arg = Line1030am => call.result = Null
       /\ (\A i \in DOMAIN lines : lines[i] \in {Line1030am, LineTime900})
            => call.result = Null
       /\ call.arg = joinLines(<<LineTime900, Line700>>, 1) => call.result = Num(700)
       /\ call.arg = LinePaidAt1030 => call.result = Num(10)

C22_Witness ==
  /\ call.fn = "extractAmount"
  /\ call.arg = LineTime900
  /\ call.result = Null

-----------------------------------------------------------------------------
(* OCR helpers: extractCounterparty, mapToEmployeeId, parseTransactionText.  *)
(* A text that may be null is a sequence of at most one text.                *)

\* \s* from position i: how many characters it takes
RECURSIVE blankRun(_, _)
blankRun(s, i) == IF i <= Len(s) /\ s[i] \in Whitespace THEN 1 + blankRun(s, i + 1) ELSE 0

\* kw\s*[:\-]?\s*(.+) read at position i of a trimmed line: the blanks, one
\* colon or hyphen, the blanks, and the rest of the line as the group; when
\* nothing is left the colon or hyphen is given back and is the group
labelGroupAt(s, i, kw) ==
  IF ~ReadsAt(s, i, kw) THEN <<>>
  ELSE LET a == i + Len(kw) + blankRun(s, i + Len(kw))
           c == IF a <= Len(s) /\ s[a] \in {":", "-"} THEN a + 1 ELSE a
           b == c + blankRun(s, c)
       IN IF b <= Len(s) THEN <<SubSeq(s, b, Len(s))>>
          ELSE IF c > a THEN <<SubSeq(s, a, Len(s))>>
          ELSE <<>>

\* kw\s+(.+) read at position i: at least one blank, then the rest of the line
blankGroupAt(s, i, kw) ==
  IF ~ReadsAt(s, i, kw) THEN <<>>
  ELSE LET b == i + Len(kw) + blankRun(s, i + Len(kw))
       IN IF blankRun(s, i + Len(kw)) >= 1 /\ b <= Len(s) THEN <<SubSeq(s, b, Len(s))>>
          ELSE IF blankRun(s, i + Len(kw)) >= 2 THEN <<SubSeq(s, Len(s), Len(s))>>
          ELSE <<>>

\* the seven expressions of extractCounterparty in their order: the keywords
\* tried at one position, whether ^ anchors them, and what follows them
counterpartyPatterns ==
  <<[kws |-> <<<<"p", "a", "i", "d", " ", "t", "o">>>>, anchored |-> FALSE, label |-> TRUE],
    [kws |-> <<<<"p", "a", "y", "m", "e", "n", "t", " ", "t", "o">>>>,
     anchored |-> FALSE, label |-> TRUE],
    [kws |-> <<<<"p", "a", "y", "e", "e", " ", "n", "a", "m", "e">>>>,
     anchored |-> FALSE, label |-> TRUE],
    [kws |-> <<<<"b", "e", "n", "e", "f", "i", "c", "i", "a", "r", "y", " ", "n", "a", "m", "e">>,
               <<"b", "e", "n", "e", "f", "i", "c", "i", "a", "r", "y">>>>,
     anchored |-> FALSE, label |-> TRUE],
    [kws |-> <<<<"t", "o">>>>, anchored |-> TRUE, label |-> FALSE],
    [kws |-> <<<<"f", "r", "o", "m">>>>, anchored |-> TRUE, label |-> FALSE],
    [kws |-> <<<<"r", "e", "c", "e", "i", "v", "e", "d", " ", "f", "r", "o", "m">>>>,
     anchored |-> FALSE, label |-> FALSE]>>

\* the group of pattern p read at position i, its keywords tried in order
RECURSIVE patternGroupAt(_, _, _, _)
patternGroupAt(s, i, p, k) ==
  IF k > Len(p.kws) THEN <<>>
  ELSE IF (IF p.label THEN labelGroupAt(s, i, p.kws[k]) ELSE blankGroupAt(s, i, p.kws[k])) # <<>>
  THEN (IF p.label THEN labelGroupAt(s, i, p.kws[k]) ELSE blankGroupAt(s, i, p.kws[k]))
  ELSE patternGroupAt(s, i, p, k + 1)

\* line.match(p): the group of the leftmost match
RECURSIVE patternMatch(_, _, _)
patternMatch(s, i, p) ==
  IF i > Len(s) \/ (p.anchored /\ i > 1) THEN <<>>
  ELSE IF patternGroupAt(s, i, p, 1) # <<>> THEN patternGroupAt(s, i, p, 1)
  ELSE patternMatch(s, i + 1, p)

\* the first expression, in order, that matches the line: m[1].trim()
RECURSIVE lineCounterparty(_, _)
lineCounterparty(s, k) ==
  IF k > Len(counterpartyPatterns) THEN <<>>
  ELSE IF patternMatch(s, 1, counterpartyPatterns[k]) # <<>>
  THEN <<Trim(patternMatch(s, 1, counterpartyPatterns[k])[1])>>
  ELSE lineCounterparty(s, k + 1)

\* the first line with a match; <<>> is the null of the code
RECURSIVE linesCounterparty(_, _)
linesCounterparty(lines, i) ==
  IF i > Len(lines) THEN <<>>
  ELSE IF lineCounterparty(lines[i], 1) # <<>> THEN lineCounterparty(lines[i], 1)
  ELSE linesCounterparty(lines, i + 1)

extractCounterparty(text) == linesCounterparty(splitLines(text, 1, <<>>), 1)

\* l.includes(sub)
includes(l, sub) ==
  \E i \in 1..(Len(l) - Len(sub) + 1) : SubSeq(l, i, i + Len(sub) - 1) = sub

\* mapToEmployeeId that takes the last employee whose name occurs
mapToEmployeeIdLast(emps, counterparty) ==
  IF counterparty = <<>> \/ counterparty[1] = <<>> THEN NoEmployee
  ELSE LET hits == {i \in DOMAIN emps :
                      includes(ToLowerCase(counterparty[1]), ToLowerCase(emps[i].name))}
       IN IF hits = {} THEN NoEmployee
          ELSE emps[CHOOSE i \in hits : \A j \in hits : j <= i].id

\* mapToEmployeeId: state.employees.find(e => l.includes(e.name.toLowerCase()))
mapToEmployeeId(emps, counterparty) ==
  IF counterparty = <<>> \/ counterparty[1] = <<>> THEN NoEmployee
  ELSE LET hits == {i \in DOMAIN emps :
                      includes(ToLowerCase(counterparty[1]), ToLowerCase(emps[i].name))}
       IN IF hits = {} THEN NoEmployee
          ELSE emps[CHOOSE i \in hits : \A j \in hits : i <= j].id

\* parseTransactionText: the amount, the counterparty and the employee of the
\* candidate; its date, time, reference, mode and direction are further
\* extractions from the text alone
parseTransactionText(rv, st, text) ==
  [amount |-> extractAmount(rv, text),
   counterparty |-> extractCounterparty(text),
   employeeId |-> mapToEmployeeId(st.employees, extractCounterparty(text))]

\* a call of parseTransactionText on the text of an image
ParseTransactionText(text) ==
  /\ call' = [fn |-> "parseTransactionText", arg |-> text,
              result |-> parseTransactionText(rev, state, text)]
  /\ lastOp' = "parseTransactionText"
  /\ UNCHANGED <<rev, state, stored, alert, run, wsVars, docs, workers, batches>>

-----------------------------------------------------------------------------
(* SpecParse: employees are added and renamed, and texts are parsed          *)

ParseEmps == 2

Kumar == <<"K", "U", "M", "A", "R">>
ParseNames == {<<>>, Asha, Kumar}

LinePaidToAshaKumar ==
  <<"P", "a", "i", "d", " ", "t", "o", " ", "A", "s", "h", "a", " ", "K", "u", "m", "a", "r">>
LinePaymentToRavi ==
  <<"p", "a", "y", "m", "e", "n", "t", " ", "t", "o", ":", " ", "R", "A", "V", "I">>
LineToAsha ==
  <<"T", "o", " ", "a", "s", "h", "a">>
LineReceivedFromKumar ==
  <<"R", "e", "c", "e", "i", "v", "e", "d", " ", "f", "r", "o", "m", " ", "k", "u", "m", "a", "r">>
ParseTexts ==
  {LinePaidToAshaKumar, LinePaymentToRavi, LineToAsha, LineReceivedFromKumar, LineRs1500,
   joinLines(<<LineRs1500, LinePaidToAshaKumar>>, 1)}

NextParse ==
  \/ AddEmployee /\ Fits(state', ParseEmps, 0)
  \/ \E i \in 1..ParseEmps, v \in ParseNames : EmployeeChange(i, "name", v)
  \/ \E text \in ParseTexts : ParseTransactionText(text)

SpecParse == Init /\ [][NextParse]_vars

\* the employees whose name, whatever its case, occurs in the counterparty
nameOccurs(emps, counterparty) ==
  {i \in DOMAIN emps :
     \E k \in 0..(Len(counterparty) - Len(emps[i].name)) :
       \A j \in 1..Len(emps[i].name) :
         ToLowerCase(counterparty)[k + j] = ToLowerCase(emps[i].name)[j]}

\* C23: parseTransactionText gives as employeeId the id of the first employee
\* of the ledger whose name occurs, whatever its case, in the counterparty it
\* extracted, and the empty id when no name occurs or no counterparty was
\* extracted; the call changes neither the ledger nor what is stored.
C23_FirstMatchingEmployee ==
  /\ [][lastOp' = "parseTransactionText" => state' = state /\ stored' = stored /\ docs' = docs]_vars
  /\ [](lastOp = "parseTransactionText" =>
          LET cp == call.result.counterparty
              hits == IF cp = <<>> THEN {} ELSE nameOccurs(state.employees, cp[1])
          IN /\ cp = extractCounterparty(call.arg)
             /\ hits = {} => call.result.employeeId = NoEmployee
             /\ hits # {} =>
                  \E i \in hits : /\ \A j \in hits : i <= j
                                  /\ call.result.employeeId = state.employees[i].id)

C23_Witness ==
  /\ lastOp = "parseTransactionText"
  /\ call.arg = LinePaidToAshaKumar
  /\ Len(state.employees) = 2
  /\ state.employees[1].name = Kumar
  /\ state.employees[2].name = Asha
  /\ call.result.employeeId = state.employees[1].id

\* C29: mapToEmployeeId gives the id of an employee only when the name of
\* that employee is not empty and occurs in the counterparty.
C29_EmptyNameNeverAssigned ==
  lastOp = "parseTransactionText" /\ call.result.employeeId # NoEmployee =>
    \E i \in DOMAIN state.employees :
      /\ state.employees[i].id = call.result.employeeId
      /\ state.employees[i].name # <<>>
      /\ i \in nameOccurs(state.employees, call.result.counterparty[1])

-----------------------------------------------------------------------------
(* Statement matcher: mapRowToEntry.  A row is the sequence of its headers    *)
(* and cells in column order; a cell is a text (CSV) or a number (XLSX), and  *)
(* Undefined is the cell of a header that is not there.                       *)

TextCell(s) == [k |-> "text", s |-> s, n |-> 0]
NumCell(n) == [k |-> "num", s |-> <<>>, n |-> n]
Undefined == [k |-> "undefined", s |-> <<>>, n |-> 0]

\* !!cell
cellTruthy(c) == IF c.k = "text" THEN c.s # <<>> ELSE c.k = "num" /\ c.n # 0

\* a || b
cellOr(a, b) == IF cellTruthy(a) THEN a ELSE b

\* String(n) of a whole number
RECURSIVE natText(_)
natText(n) == IF n < 10 THEN <<DigitChars[n + 1]>> ELSE natText(n \div 10) \o <<DigitChars[(n % 10) + 1]>>

\* String(cell || "")
cellString(c) ==
  IF ~cellTruthy(c) THEN <<>>
  ELSE IF c.k = "text" THEN c.s
  ELSE IF c.n < 0 THEN <<"-">> \o natText(-c.n) ELSE natText(c.n)

\* Number(cell) of a cell without fraction: blanks trimmed, the empty text is
\* 0, a sign and digits are their value, anything else is NaN
cellNumber(c) ==
  IF c.k = "num" THEN Num(c.n)
  ELSE IF c.k = "undefined" THEN NaN
  ELSE LET t == Trim(c.s)
           d == IF t # <<>> /\ t[1] \in {"-", "+"} THEN 2 ELSE 1
       IN IF t = <<>> THEN Num(0)
          ELSE IF d <= Len(t) /\ DigitRun(t, d) = Len(t) - d + 1 THEN ParseFloat(t)
          ELSE NaN

\* by(k): row[keys.find(h => norm(h).includes(k))]
RECURSIVE by(_, _, _)
by(row, k, i) ==
  IF i > Len(row) THEN Undefined
  ELSE IF includes(Trim(ToLowerCase(row[i].header)), k) THEN row[i].cell
  ELSE by(row, k, i + 1)

\* by(k1) || by(k2) || ... for the header fragments of one field
RECURSIVE byAny(_, _, _)
byAny(row, ks, j) ==
  IF j = Len(ks) THEN by(row, ks[j], 1)
  ELSE cellOr(by(row, ks[j], 1), byAny(row, ks, j + 1))

dateFragments ==
  <<<<"d", "a", "t", "e">>, <<"t", "x", "n", " ", "d", "a", "t", "e">>,
    <<"v", "a", "l", "u", "e", " ", "d", "a", "t", "e">>, <<"p", "o", "s", "t", "i", "n", "g">>>>
amountFragments ==
  <<<<"a", "m", "o", "u", "n", "t">>, <<"c", "r", "e", "d", "i", "t">>,
    <<"c", "r", " ", "a", "m", "o", "u", "n", "t">>, <<"d", "e", "p", "o", "s", "i", "t">>>>
descFragments ==
  <<<<"d", "e", "s", "c", "r", "i", "p", "t", "i", "o", "n">>,
    <<"n", "a", "r", "r", "a", "t", "i", "o", "n">>, <<"r", "e", "m", "a", "r", "k">>,
    <<"d", "e", "t", "a", "i", "l", "s">>>>
refFragments ==
  <<<<"u", "t", "r">>, <<"r", "e", "f">>, <<"r", "e", "f", "e", "r", "e", "n", "c", "e">>,
    <<"t", "x", "n", " ", "i", "d">>, <<"u", "p", "i", " ", "r", "e", "f">>>>
modeFragments ==
  <<<<"m", "o", "d", "e">>, <<"c", "h", "a", "n", "n", "e", "l">>, <<"t", "y", "p", "e">>>>

\* the date cell when one of the two date expressions matches in it
rowDate(dt) == IF slashFind(dt, 1) # 0 \/ monthFind(dt, 1) # 0 THEN dt ELSE <<>>

\* amt after the credit and debit columns were consulted
creditOrDebit(rawAmt, cr, dr) ==
  IF rawAmt.k # "undefined" THEN rawAmt
  ELSE IF cellTruthy(cr) /\ ~IsNaN(cellNumber(cr)) /\ cellNumber(cr).v > 0 THEN cr
  ELSE IF cellTruthy(dr) /\ ~IsNaN(cellNumber(dr)) /\ cellNumber(dr).v > 0 THEN dr
  ELSE rawAmt

\* parseFloat(String(amt||"").replace(/[^\d.]/g,"")) || null
rowAmount(amt) == JsOr(parseNumber(cellString(amt)), Null)

\* [A-Z0-9]{8,} with flag i: the leftmost run of 8 or more letters and digits
RECURSIVE alnumRun(_, _)
alnumRun(s, i) ==
  IF i <= Len(s) /\ s[i] \in Letters \cup Digits THEN 1 + alnumRun(s, i + 1) ELSE 0
RECURSIVE rowRef(_, _)
rowRef(s, i) ==
  IF i > Len(s) THEN <<>>
  ELSE IF alnumRun(s, i) >= 8 THEN SubSeq(s, i, i + alnumRun(s, i) - 1)
  ELSE rowRef(s, i + 1)

\* desc.match(/\b(UPI|NEFT|IMPS|RTGS|PhonePe|GPay|Paytm)\b/i): the leftmost
\* of the words, as written in the text
RECURSIVE descMode(_, _)
descMode(s, i) ==
  IF i > Len(s) THEN <<>>
  ELSE LET words == {w \in {<<"u", "p", "i">>, <<"n", "e", "f", "t">>, <<"i", "m", "p", "s">>,
                            <<"r", "t", "g", "s">>, <<"p", "h", "o", "n", "e", "p", "e">>,
                            <<"g", "p", "a", "y">>, <<"p", "a", "y", "t", "m">>} :
                       ReadsWordAt(s, i, w) /\ (i = 1 \/ s[i - 1] \notin WordChars)}
       IN IF words # {} THEN SubSeq(s, i, i + Len(CHOOSE w \in words : TRUE) - 1)
          ELSE descMode(s, i + 1)

\* mapRowToEntry: <<>> is the null of the code, <<entry>> an entry
mapRowToEntry(row) ==
  LET amount == rowAmount(creditOrDebit(byAny(row, amountFragments, 1),
                                        by(row, <<"c", "r", "e", "d", "i", "t">>, 1),
                                        by(row, <<"d", "e", "b", "i", "t">>, 1)))
      desc == Trim(cellString(byAny(row, descFragments, 1)))
      mode == Trim(cellString(byAny(row, modeFragments, 1)))
  IN IF amount = Null THEN <<>>
     ELSE <<[date |-> rowDate(Trim(cellString(byAny(row, dateFragments, 1)))),
             amount |-> amount,
             desc |-> desc,
             ref |-> rowRef(cellString(byAny(row, refFragments, 1)), 1),
             mode |-> IF mode # <<>> THEN mode ELSE descMode(desc, 1)]>>

\* a call of mapRowToEntry on a row of a statement
MapRowToEntry(row) ==
  /\ call' = [fn |-> "mapRowToEntry", arg |-> row, result |-> mapRowToEntry(row)]
  /\ lastOp' = "mapRowToEntry"
  /\ UNCHANGED <<rev, state, stored, alert, run, wsVars, docs, workers, batches>>

-----------------------------------------------------------------------------
(* SpecRow: mapRowToEntry over rows with an amount column or with credit and *)
(* debit columns                                                             *)

MaxCellAmount == 500

HDate == <<"D", "a", "t", "e">>
HAmount == <<"A", "m", "o", "u", "n", "t">>
HCredit == <<"C", "r", "e", "d", "i", "t">>
HDebit == <<"D", "e", "b", "i", "t">>
HNarration == <<"N", "a", "r", "r", "a", "t", "i", "o", "n">>
T1200 == <<"1", ",", "2", "0", "0">>

AmountCells ==
  {TextCell(<<>>), TextCell(T0), TextCell(T500), TextCell(T1200), TextCell(TAbc),
   NumCell(0), NumCell(MaxCellAmount)}
DateCells == {TextCell(Slash09Jan), TextCell(Iso10Jan), TextCell(<<>>)}

StatementRows ==
  {<<[header |-> HDate, cell |-> d], [header |-> HAmount, cell |-> a],
     [header |-> HNarration, cell |-> TextCell(Upi)]>> : d \in DateCells, a \in AmountCells}
  \cup {<<[header |-> HDate, cell |-> d], [header |-> HNarration, cell |-> TextCell(Upi)],
          [header |-> HCredit, cell |-> c], [header |-> HDebit, cell |-> b]>> :
          d \in DateCells, c \in AmountCells, b \in AmountCells}
  \cup {<<[header |-> HDate, cell |-> d], [header |-> HDebit, cell |-> b],
          [header |-> HCredit, cell |-> c]>> :
          d \in DateCells, c \in AmountCells, b \in AmountCells}

InitRow ==
  /\ InitPage
  /\ rev = "stmt"
  /\ call \in [fn : {"none"}, arg : StatementRows, result : {<<>>}]

NextRow == call.fn = "none" /\ MapRowToEntry(call.arg)

SpecRow == InitRow /\ [][NextRow]_vars

\* the number written in a cell, separators dropped; null for none
writtenAmount(c) == IF c.k = "num" THEN Num(c.n) ELSE JsOr(parseNumber(c.s), Null)

\* C24: a row without amount column takes its amount from the credit column
\* when the number written there is positive and otherwise from the debit
\* column when that one is positive (credit "0" with debit "500" gives 500),
\* and is mapped to null only when neither is positive.
C24_CreditThenDebit ==
  call.fn = "mapRowToEntry" /\ by(call.arg, <<"a", "m", "o", "u", "n", "t">>, 1) = Undefined =>
    LET cr == writtenAmount(by(call.arg, <<"c", "r", "e", "d", "i", "t">>, 1))
        dr == writtenAmount(by(call.arg, <<"d", "e", "b", "i", "t">>, 1))
        expected == IF cr # Null /\ cr.v > 0 THEN cr ELSE IF dr # Null /\ dr.v > 0 THEN dr ELSE Null
    IN IF expected = Null THEN call.result = <<>>
       ELSE call.result # <<>> /\ call.result[1].amount = expected

-----------------------------------------------------------------------------
(* SpecKey: toKey, the date normalization of the matcher, over date texts    *)

\* a call of toKey on the text of a date
ToKey(d) ==
  /\ call' = [fn |-> "toKey", arg |-> d, result |-> toKey(d)]
  /\ lastOp' = "toKey"
  /\ UNCHANGED <<rev, state, stored, alert, run, wsVars, docs, workers, batches>>

DayTexts == {<<"9">>, <<"0", "9">>, <<"2", "4">>}
MonthTexts == {<<"1">>, <<"0", "1">>, <<"1", "2">>}
YearTexts == {<<"2", "4">>, <<"2", "0", "2", "4">>}
MonthNames ==
  {<<"J", "a", "n">>, <<"J", "a", "n", "u", "a", "r", "y">>, <<"D", "E", "C">>, <<"F", "o", "o">>}

DateTexts ==
  {d \o sep \o mo \o sep \o y :
     d \in DayTexts, sep \in {<<"/">>, <<"-">>}, mo \in MonthTexts, y \in YearTexts}
  \cup {d \o <<" ">> \o mo \o <<" ">> \o y : d \in DayTexts, mo \in MonthNames, y \in YearTexts}
  \cup {<<"2", "0", "2", "4", "-">> \o mo \o <<"-">> \o d :
          mo \in {<<"0", "1">>, <<"1", "2">>}, d \in {<<"0", "9">>, <<"1", "0">>, <<"2", "4">>}}
  \cup {<<>>, <<"y", "e", "s">>}

InitKey ==
  /\ InitPage
  /\ rev = "stmt"
  /\ call \in [fn : {"none"}, arg : DateTexts, result : {<<>>}]

NextKey == call.fn = "none" /\ ToKey(call.arg)

SpecKey == InitKey /\ [][NextKey]_vars

\* a number below 100 written with two digits
twoDigits(n) == IF n < 10 THEN <<"0">> \o natText(n) ELSE natText(n)

\* the key YYYY-MM-DD of day d, month m and the year written as text y
dayKey(d, m, y) ==
  natText(IF Len(y) = 2 THEN 2000 + DigitsValue(y, 1, 2) ELSE DigitsValue(y, 1, 4))
  \o <<"-">> \o twoDigits(m) \o <<"-">> \o twoDigits(d)

\* the normalization as the two formats describe it: a text that is a day, a
\* month and a year of 2 or 4 digits with / or - between them, or a day, a
\* month name of the table and such a year with blanks between them, gives
\* the key of that day; every other text gives the empty key
formatKey(s) ==
  LET slash == {w \in {1, 2} \X {1, 2} \X {2, 4} :
                  /\ Len(s) = w[1] + w[2] + w[3] + 2
                  /\ DigitsAt(s, 1, w[1])
                  /\ s[w[1] + 1] \in {"/", "-"}
                  /\ DigitsAt(s, w[1] + 2, w[2])
                  /\ s[w[1] + w[2] + 2] \in {"/", "-"}
                  /\ DigitsAt(s, w[1] + w[2] + 3, w[3])}
      named == {w \in {1, 2} \X (3..9) \X {2, 4} :
                  /\ Len(s) = w[1] + w[2] + w[3] + 2
                  /\ DigitsAt(s, 1, w[1])
                  /\ s[w[1] + 1] = " "
                  /\ LetterRun(s, w[1] + 2) = w[2]
                  /\ s[w[1] + w[2] + 2] = " "
                  /\ DigitsAt(s, w[1] + w[2] + 3, w[3])
                  /\ monthTable(ToLowerCase(SubSeq(s, w[1] + 2, w[1] + 4))) # 0}
  IN IF slash # {}
     THEN LET w == CHOOSE w \in slash : TRUE
          IN dayKey(DigitsValue(s, 1, w[1]), DigitsValue(s, w[1] + 2, w[2]),
                    SubSeq(s, w[1] + w[2] + 3, Len(s)))
     ELSE IF named # {}
     THEN LET w == CHOOSE w \in named : TRUE
          IN dayKey(DigitsValue(s, 1, w[1]),
                    monthTable(ToLowerCase(SubSeq(s, w[1] + 2, w[1] + 4))),
                    SubSeq(s, w[1] + w[2] + 3, Len(s)))
     ELSE <<>>

\* C26: toKey gives the key of the day for a text in one of the two formats
\* and the empty key for every other text, an ISO date and a date with a
\* month name that is not in the table among them.
C26_ToKeyFormats ==
  call.fn = "toKey" => call.result = formatKey(call.arg)

-----------------------------------------------------------------------------
(* SpecWindow: returns of one amount imported from CSV, then matched against *)
(* statements whose entries lie around them                                  *)

WindowTxns == 2
WindowEntries == 2

Hyphen12Jan == <<"1", "2", "-", "0", "1", "-", "2", "4">>
Slash13Jan == <<"1", "3", "/", "0", "1", "/", "2", "0", "2", "4">>
Slash24Jan2010 == <<"2", "4", "/", "0", "1", "/", "2", "0", "1", "0">>
Entry12 == [date |-> Hyphen12Jan, amount |-> Num(500), desc |-> Neft, ref |-> Utr9, mode |-> Neft]
Entry13 == [date |-> Slash13Jan, amount |-> Num(500), desc |-> Neft, ref |-> Utr9, mode |-> Neft]
Entry2010 == [date |-> Slash24Jan2010, amount |-> Num(500), desc |-> Neft, ref |-> Utr9, mode |-> Neft]
Entry09Of700 == [Entry09 EXCEPT !.amount = Num(700)]
WindowEntrySet == {Entry09, Entry12, Entry13, Entry2010, Entry09Of700}

WindowRetRows ==
  [amount : {T500}, date : {Iso10Jan, Slash10Jan}, ref : {<<>>}, mode : {<<>>}, source : {<<>>}]

NextWindow ==
  \/ \E rows \in Files(WindowRetRows, MaxRows) :
       ImportIncomingCSV(rows) /\ Fits(state', 0, WindowTxns)
  \/ \E entries \in Files(WindowEntrySet, WindowEntries) : StatementImport(entries)

SpecWindow == Init /\ [][NextWindow]_vars

\* the two dates are in one of the two formats and at most two days apart
nearDays(a, b) ==
  /\ formatKey(a) # <<>>
  /\ formatKey(b) # <<>>
  /\ dateOf(formatKey(a)).v - dateOf(formatKey(b)).v \in -2..2

\* C25: a statement import matches a return with the first entry, in
\* statement order, that has exactly its amount and a normalized date at most
\* two days from its own, whether or not a later entry is closer, and fills it
\* from that entry alone; a return without such an entry is left as it was.
C25_FirstWithinTwoDays ==
  lastOp = "statementImport" =>
    \A i \in DOMAIN run.before :
      LET t == run.before[i]
          near == {j \in DOMAIN run.entries :
                     run.entries[j].amount = t.amount /\ nearDays(t.date, run.entries[j].date)}
      IN t.type = "return" =>
           IF near = {} THEN state.transactions[i] = t
           ELSE \E j \in near :
                  /\ \A h \in near : j <= h
                  /\ state.transactions[i] = backfill(t, run.entries[j]).t

\* C28: in one statement import an entry fills at most one transaction: two
\* transactions changed by the run were matched with different entries.
C28_EntryUsedOnce ==
  lastOp = "statementImport" =>
    \A i, j \in DOMAIN run.before :
      (/\ i # j
       /\ state.transactions[i] # run.before[i]
       /\ state.transactions[j] # run.before[j])
      => findHit(run.before[i], run.entries) # findHit(run.before[j], run.entries)

-----------------------------------------------------------------------------
(* Workspace isolation, checked under SpecWs *)

\* C27: when the read of the workspace just chosen finds no document, that
\* workspace starts empty: the in-memory ledger is the empty ledger and so is
\* what is written as its document, whatever ledger the workspace chosen
\* before it held.
C27_NewWorkspaceStartsEmpty ==
  [][\A t \in DOMAIN loads :
       (loads[t].status = "pending" /\ loads'[t].status = "created")
         => /\ state' = EmptyLedger
            /\ docs'[loads[t].ws].data = EmptyLedger
            /\ \A w \in Workspaces \ {loads[t].ws} : docs'[w] = docs[w]]_vars

-----------------------------------------------------------------------------
(* Mutations that wait: the Save of an OCR card waits for the upload of its  *)
(* image (revision "upload"), a JSON import for the FileReader.  call holds  *)
(* the operation in flight: the workspace it was started in and its data.    *)
(* A continuation that awaits readyPromise runs as soon as that promise is   *)
(* settled, before any other event is handled.                               *)

InFlight(fn, op, ws, data) ==
  [fn |-> fn, arg |-> [op |-> op, ws |-> ws, data |-> data, token |-> 0], result |-> Null]

\* readyPromise, as it is when a handler awaits it, is settled
ReadyNow == loads[wsLoadToken].status # "pending"

\* the continuation of the operation in flight can run
ResumeReady == call.fn = "awaitReady" /\ loads[call.arg.token].status # "pending"

\* save(): the in-memory ledger is written to the document of the workspace
\* that is current when save runs
saveNow(st) ==
  /\ stored' = st
  /\ docs' = [docs EXCEPT ![workspaceId] = DocOf(st)]

\* await readyPromise; await save() at the end of a handler whose ledger is
\* st: save at once, or wait for the load whose promise readyPromise holds
awaitReadyThenSave(st) ==
  IF ReadyNow
  THEN /\ saveNow(st)
       /\ call' = [call EXCEPT !.fn = "done"]
  ELSE /\ UNCHANGED <<stored, docs>>
       /\ call' = [call EXCEPT !.fn = "awaitReady", !.arg.token = wsLoadToken]

\* click on Save of an OCR card that has an image: the record is made and
\* tested, then uploadTxnImage is awaited
CardSaveClick(f) ==
  /\ rev = "upload"
  /\ call.fn \in {"none", "done"}
  /\ ~controlsDisabled
  /\ LET rec == [type |-> f.type, employeeId |-> f.employeeId,
                 amount |-> cardAmount(rev, f.amount), mode |-> Trim(f.mode),
                 date |-> Trim(f.date), ref |-> Trim(f.ref), source |-> Trim(f.source),
                 cutOverride |-> Null]
     IN IF Falsy(rec.amount) \/ IsNaN(rec.amount)
        THEN Reject("cardSave", "Amount missing/invalid")
        ELSE IF rec.type = "outgoing" /\ rec.employeeId = NoEmployee
        THEN Reject("cardSave", "Please choose an employee for outgoing")
        ELSE /\ call' = InFlight("uploadTxnImage", "cardSave", workspaceId, rec)
             /\ lastOp' = "cardSaveClick"
             /\ UNCHANGED <<rev, state, stored, alert, run, wsVars, docs, workers, batches>>

\* the upload ends, well or not: the record is pushed to the ledger in memory
\* and the handler goes on to await readyPromise and save
UploadDone(ok) ==
  /\ call.fn = "uploadTxnImage"
  /\ state' = [state EXCEPT !.transactions =
                 Append(@, [id |-> uidTxn(state)] @@ call.arg.data)]
  /\ awaitReadyThenSave(state')
  /\ alert' = IF ok THEN alert
              ELSE "Could not upload image; saved transaction without image."
  /\ lastOp' = "cardSaveUploaded"
  /\ run' = NoRun
  /\ UNCHANGED <<rev, wsVars, workers, batches>>

\* importJSONFile up to reader.readAsText(file)
ImportJSONClick(file) ==
  /\ call.fn \in {"none", "done"}
  /\ IF controlsDisabled THEN Reject("importJSON", "Pick a workspace first.")
     ELSE /\ call' = InFlight("readAsText", "importJSON", workspaceId, file)
          /\ lastOp' = "importJSONClick"
          /\ UNCHANGED <<rev, state, stored, alert, run, wsVars, docs, workers, batches>>

\* reader.onload: the text is parsed and tested; a ledger awaits readyPromise
\* before it replaces the one in memory
ReadDone ==
  /\ call.fn = "readAsText"
  /\ lastOp' = "importJSONRead"
  /\ run' = NoRun
  /\ UNCHANGED <<rev, wsVars, workers, batches>>
  /\ IF call.arg.data.kind # "ledger"
     THEN /\ alert' = IF call.arg.data.kind = "garbage" THEN "Failed to parse JSON."
                      ELSE "Invalid JSON structure."
          /\ call' = [call EXCEPT !.fn = "done"]
          /\ UNCHANGED <<state, stored, docs>>
     ELSE /\ alert' = alert
          /\ state' = IF ReadyNow THEN call.arg.data.obj ELSE state
          /\ awaitReadyThenSave(state')

\* the load awaited through readyPromise has ended: the handler goes on, an
\* import with state = obj, and saves
Resume ==
  /\ ResumeReady
  /\ state' = IF call.arg.op = "importJSON" THEN call.arg.data.obj ELSE state
  /\ saveNow(state')
  /\ call' = [call EXCEPT !.fn = "done"]
  /\ lastOp' = "resume"
  /\ run' = NoRun
  /\ UNCHANGED <<rev, alert, wsVars, workers, batches>>

-----------------------------------------------------------------------------
(* SpecFlight: a card is saved or a file imported while workspaces are       *)
(* switched                                                                  *)

FlightTxns == 2

ImportedLedger ==
  [employees |-> <<[id |-> 1, name |-> Kumar, cutType |-> "percent", cutValue |-> Num(0)]>>,
   transactions |-> <<>>]
FlightFiles ==
  {[kind |-> "garbage", obj |-> EmptyLedger], [kind |-> "noMembers", obj |-> EmptyLedger],
   [kind |-> "ledger", obj |-> ImportedLedger]}
FlightForms ==
  [type : {"return", "outgoing"}, employeeId : {NoEmployee}, amount : {T500, TAbc},
   mode : {<<>>}, date : {<<>>}, ref : {Utr1}, source : {<<>>}]

\* the page with workspace a open and loaded; workspace b has a document
InitFlight ==
  /\ rev \in {"upload", "stmt"}
  /\ state = EmptyLedger
  /\ stored = EmptyLedger
  /\ alert = ""
  /\ lastOp = "init"
  /\ run = NoRun
  /\ workspaceId = WsA
  /\ wsLoadToken = 1
  /\ controlsDisabled = FALSE
  /\ loads = <<[ws |-> WsA, status |-> "applied"]>>
  /\ docs \in [Workspaces -> {DocOf(EmptyLedger), DocOf(SampleLedger)}]
  /\ docs[WsA] = DocOf(EmptyLedger)
  /\ workers = 0
  /\ batches = <<>>
  /\ call = NoCall

NextFlight ==
  \/ Resume /\ Fits(state', 1, FlightTxns)
  \/ ~ResumeReady /\ \E id \in Workspaces : SetWorkspace(id)
  \/ ~ResumeReady /\ \E currentToken \in 1..MaxLoads, ok \in BOOLEAN : LoadDone(currentToken, ok)
  \/ ~ResumeReady /\ \E f \in FlightForms : CardSaveClick(f)
  \/ ~ResumeReady /\ \E ok \in BOOLEAN : UploadDone(ok) /\ Fits(state', 1, FlightTxns)
  \/ ~ResumeReady /\ \E file \in FlightFiles : ImportJSONClick(file)
  \/ ~ResumeReady /\ ReadDone

SpecFlight == InitFlight /\ [][NextFlight]_vars

\* C30: the steps of an operation in flight that was started in workspace W
\* change the document of no other workspace, and change the ledger in memory
\* only while W, or a workspace whose load still runs, is the current one.
C30_InFlightStaysInWorkspace ==
  [][lastOp' \in {"cardSaveUploaded", "importJSONRead", "resume"} =>
       /\ \A w \in Workspaces \ {call.arg.ws} : docs'[w] = docs[w]
       /\ (workspaceId # call.arg.ws /\ ReadyNow) => state' = state]_vars
====
